---- MODULE Spec2Model ----
(***************************************************************************)
(* contextd: the incremental index pipeline (daemon.rs) over the Store     *)
(* (storage/db.rs).  Index tasks are spawned by the initial scan and by    *)
(* the watcher event loop, share a 4-permit semaphore, and rewrite a       *)
(* file's chunks through a sequence of independent Store calls, each of    *)
(* which takes the connection mutex for the duration of the call.          *)
(***************************************************************************)
EXTENDS Integers, Sequences, FiniteSets, TLC

VARIABLES disk, files, chunks, fts, now, permits, tasks, scanQueue, phase,
          pending, observed, budget, issued, query_cache, mcp_cache, response,
          input, output, ignore_checkers, walker

vars == <<disk, files, chunks, fts, now, permits, tasks, scanQueue, phase,
          pending, observed, budget, issued, query_cache, mcp_cache, response,
          input, output, ignore_checkers, walker>>

----------------------------------------------------------------------------
(* Bounds of the exploration *)

MaxMods == 1
MaxFaults == 1
MaxSearches == 1
MaxEvents == 1

(* SQL NULL / Option::None of an integer *)
NULL == -1

(* Option of a vector, a blob or a list: None, Some(x) and the x of Some(x) *)
None == <<>>
Some(x) == <<x>>
Unwrap(o) == o[1]

(* input and output of a function while none is being called *)
NoCall == <<>>

(* walker is the file the walker of the initial scan has tested and waits
   to spawn a task for; NoEntry: it holds none *)
NoEntry == ""

(* Semaphore::new(4) *)
N == 4

NL == "\n"

(* File contents on disk, as sequences of bytes *)
ContentAB == <<"a", NL, NL, "b">>
ContentXC == <<"x", NL, NL, "c">>
ContentA == <<"a">>
Contents == {ContentAB, ContentXC, ContentA}

(* A PDF file that pdf_extract cannot read *)
ContentBad == <<"%">>

(* The paths under the watched root *)
PathList == <<".git", ".gitignore", "a.txt", "b.txt", "build.log", "c.txt", "d.txt",
              "e.txt", "f.pdf", "g.doc", "gone.txt", "h.doc", "i.doc", "j.odt", "sub">>
Paths == {PathList[i] : i \in 1..Len(PathList)}

(* The bytes of the names of PathList *)
NameBytes ==
    <<<<".", "g", "i", "t">>,
      <<".", "g", "i", "t", "i", "g", "n", "o", "r", "e">>,
      <<"a", ".", "t", "x", "t">>,
      <<"b", ".", "t", "x", "t">>,
      <<"b", "u", "i", "l", "d", ".", "l", "o", "g">>,
      <<"c", ".", "t", "x", "t">>,
      <<"d", ".", "t", "x", "t">>,
      <<"e", ".", "t", "x", "t">>,
      <<"f", ".", "p", "d", "f">>,
      <<"g", ".", "d", "o", "c">>,
      <<"g", "o", "n", "e", ".", "t", "x", "t">>,
      <<"h", ".", "d", "o", "c">>,
      <<"i", ".", "d", "o", "c">>,
      <<"j", ".", "o", "d", "t">>,
      <<"s", "u", "b">>>>

(* a path below the root as its components, each a sequence of bytes *)
PathBytes(p) == <<NameBytes[CHOOSE i \in 1..Len(PathList) : PathList[i] = p]>>

(* The text of the root's .gitignore: the rule *.log *)
ContentGitignore == <<"*", ".", "l", "o", "g", NL>>

(* The text files of the scheduling scenario *)
TextFiles == {"a.txt", "b.txt", "c.txt", "d.txt", "e.txt"}

(* Files that cannot be chunked: a damaged PDF and files handed to a plugin *)
BadFiles == {"f.pdf", "g.doc", "h.doc", "i.doc", "j.odt"}

(* Path::extension *)
extension(p) ==
    IF p = "f.pdf" THEN "pdf"
    ELSE IF p \in {"g.doc", "h.doc", "i.doc"} THEN "doc"
    ELSE IF p = "j.odt" THEN "odt"
    ELSE IF p = "build.log" THEN "log"
    ELSE IF p \in TextFiles \cup {"gone.txt"} THEN "txt"
    ELSE IF p = "NOTES.TXT" THEN "TXT"
    ELSE IF p = "c.md" THEN "md"
    ELSE ""

(* Path::file_name *)
file_name(p) == p

(* config.plugins: extension -> argv of the parser; odt is configured with an
   empty command *)
PluginExts == {"doc", "odt"}
plugins(ext) == IF ext = "doc" THEN <<"parse">> ELSE <<>>

(* Files whose content changes while the daemon runs *)
Mutable == {"a.txt"}

----------------------------------------------------------------------------
(* Generic helpers *)

Max(S) == CHOOSE x \in S : \A y \in S : y <= x

RECURSIVE SortById(_)
(* rows of a table in rowid order *)
SortById(rows) ==
    IF rows = {} THEN <<>>
    ELSE LET r == CHOOSE x \in rows : \A y \in rows : x.id <= y.id
         IN <<r>> \o SortById(rows \ {r})

----------------------------------------------------------------------------
(* Chunker: the default text strategy *)

RECURSIVE SplitNN(_, _)
(* str::split("\n\n"): the pieces between non-overlapping matches, left to right;
   acc is the piece being accumulated *)
SplitNN(s, acc) ==
    IF s = <<>> THEN <<acc>>
    ELSE IF Len(s) >= 2 /\ s[1] = NL /\ s[2] = NL
         THEN <<acc>> \o SplitNN(SubSeq(s, 3, Len(s)), <<>>)
         ELSE SplitNN(Tail(s), Append(acc, Head(s)))

(* variant: a skipped empty piece leaves the offset where it is *)
SkipEmptyStays(start) == start

(* 341-344: an empty piece is skipped and the offset moves over the separator *)
SkipEmpty(start) == start + 2

RECURSIVE ChunkPieces(_, _)
(* the loop of chunk_text over the pieces, start being the running offset *)
ChunkPieces(pieces, start) ==
    IF pieces = <<>> THEN <<>>
    ELSE LET paragraph == Head(pieces)
             len == Len(paragraph)
         IN IF len = 0
            THEN ChunkPieces(Tail(pieces), SkipEmpty(start))
            ELSE <<[start |-> start, end |-> start + len, content |-> paragraph,
                    metadata |-> None]>>
                 \o ChunkPieces(Tail(pieces), start + len + 2)

chunk_text(content) == ChunkPieces(SplitNN(content, <<>>), 0)

FF == "\f"
Whitespace == {NL, " ", FF}

RECURSIVE TrimStart(_)
TrimStart(s) == IF s # <<>> /\ Head(s) \in Whitespace THEN TrimStart(Tail(s)) ELSE s

RECURSIVE TrimEnd(_)
TrimEnd(s) ==
    IF s # <<>> /\ s[Len(s)] \in Whitespace THEN TrimEnd(SubSeq(s, 1, Len(s) - 1)) ELSE s

(* str::trim *)
Trim(s) == TrimEnd(TrimStart(s))

----------------------------------------------------------------------------
(* Chunker: the Markdown strategy *)

RECURSIVE SplitNL(_, _)
(* the pieces of s between its newline bytes *)
SplitNL(s, acc) ==
    IF s = <<>> THEN <<acc>>
    ELSE IF Head(s) = NL THEN <<acc>> \o SplitNL(Tail(s), <<>>)
    ELSE SplitNL(Tail(s), Append(acc, Head(s)))

(* str::lines of a text without carriage returns: the pieces between the
   newlines, without a last empty piece *)
Lines(s) ==
    LET pieces == SplitNL(s, <<>>)
    IN IF pieces[Len(pieces)] = <<>> THEN SubSeq(pieces, 1, Len(pieces) - 1) ELSE pieces

RECURSIVE HeadingLevel(_)
(* line.chars().take_while(|c| *c == '#').count() *)
HeadingLevel(line) ==
    IF line # <<>> /\ Head(line) = "#" THEN 1 + HeadingLevel(Tail(line)) ELSE 0

(* line[level..].trim() *)
HeadingTitle(line) == Trim(SubSeq(line, HeadingLevel(line) + 1, Len(line)))

(* variant: every heading is pushed on the stack *)
PushHeadingAlways(header_stack, level, title) == Append(header_stack, title)

(* 293-298: the header stack after a heading of the given level *)
PushHeading(header_stack, level, title) ==
    IF level > Len(header_stack) THEN Append(header_stack, title)
    ELSE Append(SubSeq(header_stack, 1, level - 1), title)

(* 275-279: serde_json::json!({ "headers": header_stack }), or None *)
HeadersMetadata(header_stack) ==
    IF header_stack # <<>> THEN Some([headers |-> header_stack]) ELSE None

(* the chunk pushed for the accumulated content, if it is not blank *)
PushChunk(st) ==
    IF Trim(st.current_chunk_content) # <<>>
    THEN Append(st.chunks,
                [start |-> st.current_chunk_start,
                 end |-> st.current_chunk_start + Len(st.current_chunk_content),
                 content |-> st.current_chunk_content,
                 metadata |-> HeadersMetadata(st.header_stack)])
    ELSE st.chunks

(* one iteration of the loop of chunk_markdown (270-308) *)
MarkdownLine(st, line) ==
    IF line # <<>> /\ Head(line) = "#"
    THEN [chunks |-> PushChunk(st),
          header_stack |-> PushHeading(st.header_stack, HeadingLevel(line), HeadingTitle(line)),
          current_chunk_start |-> st.current_chunk_start + Len(st.current_chunk_content) + 1,
          current_chunk_content |-> Append(line, NL)]
    ELSE [st EXCEPT !.current_chunk_content = @ \o Append(line, NL)]

RECURSIVE MarkdownLoop(_, _)
MarkdownLoop(st, lines) ==
    IF lines = <<>> THEN st ELSE MarkdownLoop(MarkdownLine(st, Head(lines)), Tail(lines))

(* chunk_markdown *)
chunk_markdown(content) ==
    LET st == MarkdownLoop([chunks |-> <<>>, header_stack |-> <<>>,
                            current_chunk_start |-> 0, current_chunk_content |-> <<>>],
                           Lines(content))
        all == PushChunk(st)
    IN IF all = <<>> /\ Trim(content) # <<>> THEN chunk_text(content) ELSE all

----------------------------------------------------------------------------
(* Chunker: the strategy of an extension *)

(* chunk_by_type for the Markdown extensions and for those without a
   strategy of their own *)
chunk_by_type(content, ext) ==
    IF ext \in {"md", "markdown"} THEN chunk_markdown(content) ELSE chunk_text(content)

RECURSIVE ReplaceFF(_)
(* content.replace('\x0c', "\n\n") *)
ReplaceFF(s) ==
    IF s = <<>> THEN <<>>
    ELSE (IF Head(s) = FF THEN <<NL, NL>> ELSE <<Head(s)>>) \o ReplaceFF(Tail(s))

RECURSIVE PdfPieces(_, _)
(* the loop of chunk_pdf over the paragraphs *)
PdfPieces(pieces, start) ==
    IF pieces = <<>> THEN <<>>
    ELSE LET paragraph == Head(pieces)
             len == Len(paragraph)
         IN IF len = 0
            THEN PdfPieces(Tail(pieces), start + 2)
            ELSE IF Trim(paragraph) = <<>>
            THEN PdfPieces(Tail(pieces), start + len + 2)
            ELSE <<[start |-> start, end |-> start + len, content |-> Trim(paragraph),
                    metadata |-> None]>>
                 \o PdfPieces(Tail(pieces), start + len + 2)

(* pdf_extract::extract_text_from_mem: a document is its marker followed by
   its text; anything else is rejected *)
extract_text_from_mem(bytes) ==
    IF bytes # <<>> /\ Head(bytes) = "P"
    THEN [ok |-> TRUE, text |-> Tail(bytes)]
    ELSE [ok |-> FALSE, text |-> <<>>]

(* chunk_pdf on the bytes read from the file; readable is the outcome of std::fs::read *)
chunk_pdf(readable, bytes) ==
    LET doc == extract_text_from_mem(bytes)
    IN IF readable /\ doc.ok
       THEN [ok |-> TRUE, chunks |-> PdfPieces(SplitNN(ReplaceFF(doc.text), <<>>), 0)]
       ELSE [ok |-> FALSE, chunks |-> <<>>]

(* what the configured parser does with a file: it runs past the 30 s
   timeout, exits with a failure status, or writes bytes to stdout *)
PluginBehaviour(p) ==
    IF p = "g.doc" THEN "timeout"
    ELSE IF p = "h.doc" THEN "exit"
    ELSE IF p = "i.doc" THEN "nonutf8"
    ELSE "ok"

(* plugins.rs 21: Duration::from_secs(30) *)
PluginTimeoutSecs == 30

(* bytes that are no ASCII: a lead byte of a two-byte sequence, a
   continuation byte and a byte that occurs in no UTF-8 text *)
LeadByte == "0xC3"
ContinuationByte == "0xA9"
NeverByte == "0xFF"

RECURSIVE Utf8Valid(_)
(* String::from_utf8(bytes).is_ok() *)
Utf8Valid(bytes) ==
    IF bytes = <<>> THEN TRUE
    ELSE IF Head(bytes) \in {NeverByte, ContinuationByte} THEN FALSE
    ELSE IF Head(bytes) = LeadByte
    THEN Len(bytes) >= 2 /\ bytes[2] = ContinuationByte /\ Utf8Valid(Tail(Tail(bytes)))
    ELSE Utf8Valid(Tail(bytes))

(* variant: the runner waits for the process however long it takes *)
TimedOutNever(proc) == FALSE

(* plugins.rs 21-23: command.output() is not ready when the timeout fires *)
TimedOut(proc) == proc.spawned /\ proc.seconds > PluginTimeoutSecs

(* plugins::run_parser on a process described by whether it can be
   spawned, how long it runs, its exit status and its stdout *)
run_command(cmd, proc) ==
    IF cmd = <<>> THEN [kind |-> "Empty", content |-> <<>>]
    ELSE IF TimedOut(proc) THEN [kind |-> "Timeout", content |-> <<>>]
    ELSE IF ~proc.spawned THEN [kind |-> "Execute", content |-> <<>>]
    ELSE IF proc.status # 0 THEN [kind |-> "Exit", content |-> <<>>]
    ELSE IF ~Utf8Valid(proc.stdout) THEN [kind |-> "Binary", content |-> <<>>]
    ELSE [kind |-> "Ok", content |-> proc.stdout]

(* the process the configured parser is for a file whose bytes it writes out *)
ProcessOf(p, bytes) ==
    [spawned |-> TRUE,
     seconds |-> IF PluginBehaviour(p) = "timeout" THEN PluginTimeoutSecs + 5 ELSE 1,
     status |-> IF PluginBehaviour(p) = "exit" THEN 1 ELSE 0,
     stdout |-> IF PluginBehaviour(p) = "nonutf8" THEN <<NeverByte>> \o bytes ELSE bytes]

(* plugins::run_parser as index_file uses it: Ok(content) or an error *)
run_parser(cmd, p, bytes) ==
    LET out == run_command(cmd, ProcessOf(p, bytes))
    IN [ok |-> out.kind = "Ok", content |-> out.content]

----------------------------------------------------------------------------
(* f32 arithmetic.  An f32 value that is zero or positive and normal is its
   IEEE 754 bit pattern, an integer; the order of the bit patterns is the
   order of the values.  Every operation rounds to nearest, ties to even. *)

(* the weight of the hidden bit of a 24-bit significand *)
HiddenBit == 2 ^ 23

(* the significand of a value, as an integer below 2^24 *)
Mant(x) == IF x = 0 THEN 0 ELSE HiddenBit + (x % HiddenBit)

(* the power of two by which the significand is scaled *)
Expo(x) == (x \div HiddenBit) - 150

RECURSIVE BitLen(_)
(* the number of bits of a natural number *)
BitLen(n) == IF n = 0 THEN 0 ELSE 1 + BitLen(n \div 2)

(* what is cut off below the last kept bit, r of unit: 0 nothing, 1 less
   than half, 2 half, 3 more than half *)
RestOf(r, unit) ==
    IF 2 * r > unit THEN 3 ELSE IF 2 * r = unit THEN 2 ELSE IF r > 0 THEN 1 ELSE 0

(* round to nearest, ties to even: the f32 nearest to (m + rest) * 2^e for a
   significand m of 24 bits *)
Pack(m, e, rest) ==
    LET r == IF rest = 3 \/ (rest = 2 /\ m % 2 = 1) THEN m + 1 ELSE m
    IN IF r = 2 * HiddenBit THEN (e + 151) * HiddenBit
       ELSE (e + 150) * HiddenBit + (r - HiddenBit)

(* the f32 nearest to n * 2^e for a natural number n *)
F32Scaled(n, e) ==
    LET len == BitLen(n)
        k == len - 24
    IN IF n = 0 THEN 0
       ELSE IF k <= 0 THEN Pack(n * (2 ^ (0 - k)), e + k, 0)
       ELSE Pack(n \div (2 ^ k), e + k, RestOf(n % (2 ^ k), 2 ^ k))

(* n as f32 *)
F32Int(n) == F32Scaled(n, 0)

(* x / y in f32, y not zero: 24 bits of the quotient of the significands by
   long division, six bits at a time, rounded by the remainder *)
F32Div(x, y) ==
    LET mx == Mant(x)
        my == Mant(y)
        a == IF mx >= my THEN mx ELSE 2 * mx
        e == Expo(x) - Expo(y) - (IF mx >= my THEN 23 ELSE 24)
        r0 == a - my
        q1 == (64 * r0) \div my
        r1 == (64 * r0) % my
        q2 == (64 * r1) \div my
        r2 == (64 * r1) % my
        q3 == (64 * r2) \div my
        r3 == (64 * r2) % my
        q4 == (32 * r3) \div my
        r4 == (32 * r3) % my
    IN IF x = 0 THEN 0
       ELSE Pack((((((64 + q1) * 64) + q2) * 64 + q3) * 32) + q4, e, RestOf(r4, my))

(* x * y in f32: the 48-bit product of the significands in two halves of 24
   bits, rounded by the lower half *)
F32Mul(x, y) ==
    LET a1 == Mant(x) \div 4096
        a0 == Mant(x) % 4096
        b1 == Mant(y) \div 4096
        b0 == Mant(y) % 4096
        mid == (a1 * b0) + (a0 * b1)
        low == ((mid % 4096) * 4096) + (a0 * b0)
        lo == low % (2 * HiddenBit)
        hi == (a1 * b1) + (mid \div 4096) + (low \div (2 * HiddenBit))
        e == Expo(x) + Expo(y)
    IN IF x = 0 \/ y = 0 THEN 0
       ELSE IF hi >= HiddenBit
            THEN Pack(hi, e + 24, RestOf(lo, 2 * HiddenBit))
            ELSE Pack((2 * hi) + (lo \div HiddenBit), e + 23, RestOf(lo % HiddenBit, HiddenBit))

(* x + y in f32: the smaller operand is shifted to the exponent of the
   larger one, and the sum is rounded by the bits shifted out *)
F32Add(x, y) ==
    LET big == IF x >= y THEN x ELSE y
        small == IF x >= y THEN y ELSE x
        d == Expo(big) - Expo(small)
        q == Mant(small) \div (2 ^ d)
        r == Mant(small) % (2 ^ d)
        s == Mant(big) + q
    IN IF small = 0 THEN big
       ELSE IF d > 25 THEN big
       ELSE IF s < 2 * HiddenBit THEN Pack(s, Expo(big), RestOf(r, 2 ^ d))
       ELSE Pack(s \div 2, Expo(big) + 1,
                 IF s % 2 = 1 THEN (IF r > 0 THEN 3 ELSE 2) ELSE (IF r > 0 THEN 1 ELSE 0))

(* x - y in f32 for x >= y > 0 whose exponents differ by at most 6: the
   difference is exact in units of y's last bit *)
F32Sub(x, y) ==
    IF y = 0 THEN x
    ELSE F32Scaled((Mant(x) * (2 ^ (Expo(x) - Expo(y)))) - Mant(y), Expo(y))

(* 1.0 *)
F32One == F32Int(1)

----------------------------------------------------------------------------
(* Embedder: a deterministic function of the text; it fails on some texts *)

(* the texts on which the embedder fails *)
Unembeddable == {<<"x">>, <<"x", " ", "a">>}

(* the normalised vector the model yields for a text, in tenths *)
Vector(text) ==
    IF text = <<>> THEN <<0, 0>>
    ELSE IF Head(text) = "b" THEN <<0, 10>>
    ELSE IF Head(text) = "c" THEN <<6, 8>>
    ELSE <<10, 0>>

(* Embedder::embed(..).ok(): None for an error, or the vector *)
embed(text) == IF text \in Unembeddable THEN None ELSE Some(Vector(text))

(* the f32 values that occur, in tenths *)
F32Values == 0..10

(* f32::to_le_bytes *)
to_le_bytes(v) ==
    CASE v = 0 -> <<0, 0, 0, 0>>
      [] v = 1 -> <<205, 204, 204, 61>>
      [] v = 2 -> <<205, 204, 76, 62>>
      [] v = 3 -> <<154, 153, 153, 62>>
      [] v = 4 -> <<205, 204, 204, 62>>
      [] v = 5 -> <<0, 0, 0, 63>>
      [] v = 6 -> <<154, 153, 25, 63>>
      [] v = 7 -> <<51, 51, 51, 63>>
      [] v = 8 -> <<205, 204, 76, 63>>
      [] v = 9 -> <<102, 102, 102, 63>>
      [] v = 10 -> <<0, 0, 128, 63>>

(* f32::from_le_bytes *)
from_le_bytes(b) == CHOOSE v \in F32Values : to_le_bytes(v) = b

(* u32::from_le_bytes: the bit pattern that four bytes hold *)
LeBits(b) == b[1] + (256 * b[2]) + (65536 * b[3]) + (16777216 * b[4])

(* the f32 values of the tenths, as their bit patterns *)
Tenth == [v \in F32Values |-> LeBits(to_le_bytes(v))]

(* a * b in f32 for every two of them *)
Products == [a \in F32Values |-> [b \in F32Values |-> F32Mul(Tenth[a], Tenth[b])]]

RECURSIVE VecBytes(_)
(* the little-endian bytes of a vector (add_chunk 152-157, cache key 340-344) *)
VecBytes(emb) ==
    IF emb = <<>> THEN <<>> ELSE to_le_bytes(Head(emb)) \o VecBytes(Tail(emb))

(* variant: a missing embedding is stored as the zero vector *)
embedding_bytes_zero(embedding) ==
    IF embedding = None THEN Some(VecBytes(<<0, 0>>)) ELSE Some(VecBytes(Unwrap(embedding)))

(* add_chunk 150-160: embedding_bytes of an Option<&[f32]> *)
embedding_bytes(embedding) ==
    IF embedding = None THEN None ELSE Some(VecBytes(Unwrap(embedding)))

(* blob.chunks_exact(4).map(f32::from_le_bytes): a trailing remainder is dropped *)
DecodeBlob(blob) ==
    [k \in 1..(Len(blob) \div 4) |-> from_le_bytes(SubSeq(blob, 4 * k - 3, 4 * k))]

----------------------------------------------------------------------------
(* Store: SQL statements over the tables files, chunks and chunks_fts *)

(* INTEGER PRIMARY KEY without AUTOINCREMENT: one more than the largest rowid *)
NextRowid(rows) == IF rows = {} THEN 1 ELSE Max({r.id : r \in rows}) + 1

(* variant: INSERT OR REPLACE, which deletes the conflicting row and inserts a new one *)
UpsertFileRowReplace(fs, path, last_modified) ==
    LET rest == {r \in fs : r.path # path}
    IN rest \cup {[id |-> NextRowid(rest), path |-> path,
                   last_modified |-> last_modified, last_indexed |-> NULL]}

(* INSERT ... ON CONFLICT(path) DO UPDATE SET last_modified, last_indexed = NULL *)
UpsertFileRow(fs, path, last_modified) ==
    IF \E r \in fs : r.path = path
    THEN {IF r.path = path
          THEN [r EXCEPT !.last_modified = last_modified, !.last_indexed = NULL]
          ELSE r : r \in fs}
    ELSE fs \cup {[id |-> NextRowid(fs), path |-> path,
                   last_modified |-> last_modified, last_indexed |-> NULL]}

(* SELECT id FROM files WHERE path = ?1 *)
SelectFileId(fs, path) == (CHOOSE r \in fs : r.path = path).id

(* add_or_update_file; fault = 0: both statements succeed, 1: the upsert fails,
   2: the upsert is applied and the SELECT fails *)
add_or_update_file(fs, path, last_modified, fault) ==
    LET fs2 == IF fault = 1 THEN fs ELSE UpsertFileRow(fs, path, last_modified)
    IN [files |-> fs2,
        ok |-> fault = 0,
        id |-> IF fault = 0 THEN SelectFileId(fs2, path) ELSE 0]

(* mark_indexed: UPDATE files SET last_indexed = strftime('%s','now') WHERE id = ?1 *)
mark_indexed(fs, file_id, t) ==
    {IF r.id = file_id THEN [r EXCEPT !.last_indexed = t] ELSE r : r \in fs}

(* variant: a file modified in the second it was indexed counts as changed *)
needs_reindexing_ge(fs, path, current_modified) ==
    LET rows == {r \in fs : r.path = path}
    IN IF rows = {} THEN TRUE
       ELSE LET ts == (CHOOSE r \in rows : TRUE).last_indexed
            IN IF ts = NULL THEN TRUE ELSE current_modified >= ts

(* needs_reindexing: the match over Option<Option<u64>> *)
needs_reindexing(fs, path, current_modified) ==
    LET rows == {r \in fs : r.path = path}
    IN IF rows = {} THEN TRUE
       ELSE LET ts == (CHOOSE r \in rows : TRUE).last_indexed
            IN IF ts = NULL THEN TRUE ELSE current_modified > ts

(* variant: the subquery runs over a chunks table that has lost the rows of
   the file already, so it selects no rowid *)
delete_fts_rows_late(cs, ft, file_id) == ft

(* clear_chunks 137-140: DELETE FROM chunks_fts WHERE rowid IN
   (SELECT id FROM chunks WHERE file_id = ?1) *)
delete_fts_rows(cs, ft, file_id) ==
    LET ids == {c.id : c \in {x \in cs : x.file_id = file_id}}
    IN {r \in ft : r.id \notin ids}

(* variant: nothing is deleted *)
delete_chunk_rows_keep(cs, file_id) == cs

(* clear_chunks 141: DELETE FROM chunks WHERE file_id = ?1 *)
delete_chunk_rows(cs, file_id) == {c \in cs : c.file_id # file_id}

(* clear_chunks as one uninterrupted call; fault = 0: both DELETEs succeed,
   1: the first fails, 2: the FTS rows are deleted and the DELETE FROM chunks
   fails *)
clear_chunks(cs, ft, file_id, fault) ==
    LET ft2 == IF fault = 1 THEN ft ELSE delete_fts_rows(cs, ft, file_id)
        cs2 == IF fault # 0 THEN cs ELSE delete_chunk_rows(cs, file_id)
    IN [chunks |-> cs2, fts |-> ft2, ok |-> fault = 0]

(* add_chunk 167-171: INSERT INTO chunks, and last_insert_rowid.  The INSERT
   fails on the foreign key of chunks.file_id (PRAGMA foreign_keys = ON) when
   files holds no row with the id file_id *)
insert_chunk_row(fs, cs, file_id, chunk, embedding) ==
    LET chunk_id == NextRowid(cs)
        row == [id |-> chunk_id, file_id |-> file_id,
                start_offset |-> chunk.start, end_offset |-> chunk.end,
                content |-> chunk.content, embedding |-> embedding_bytes(embedding)]
        orphan == \A f \in fs : f.id # file_id
    IN [chunks |-> IF orphan THEN cs ELSE cs \cup {row},
        ok |-> ~orphan,
        chunk_id |-> IF orphan THEN 0 ELSE chunk_id]

(* add_chunk 172-176: INSERT INTO chunks_fts (rowid, content).  The INSERT
   fails on its rowid when chunks_fts still holds a row with that rowid *)
insert_fts_row(ft, chunk_id, content) ==
    LET conflict == \E r \in ft : r.id = chunk_id
    IN [fts |-> IF conflict THEN ft ELSE ft \cup {[id |-> chunk_id, content |-> content]},
        ok |-> ~conflict]

(* add_chunk as one uninterrupted call; fault = 0: no statement fails for an
   outside reason, 1: the first INSERT fails, 2: the chunk row is inserted
   and the INSERT INTO chunks_fts fails *)
add_chunk(fs, cs, ft, file_id, chunk, embedding, fault) ==
    LET first == IF fault = 1 THEN [chunks |-> cs, ok |-> FALSE, chunk_id |-> 0]
                 ELSE insert_chunk_row(fs, cs, file_id, chunk, embedding)
        second == IF fault # 0 \/ ~first.ok THEN [fts |-> ft, ok |-> FALSE]
                  ELSE insert_fts_row(ft, first.chunk_id, chunk.content)
    IN [chunks |-> first.chunks, fts |-> second.fts, ok |-> second.ok]

(* The row source of search_chunks_enhanced:
   chunks JOIN files ON file_id = id WHERE embedding IS NOT NULL *)
SearchRows(fs, cs) ==
    {[id |-> c.id, content |-> c.content, file_path |-> f.path,
      last_modified |-> f.last_modified]
        : <<c, f>> \in {<<c, f>> \in cs \X fs : c.file_id = f.id /\ c.embedding # None}}

----------------------------------------------------------------------------
(* Store: vector search and the query cache *)

(* LruCache::new(NonZeroUsize::new(100)) *)
CacheCapacity == 100

(* the number of results kept in a cache entry *)
cache_limit == 50

(* options.limit.unwrap_or(10) *)
DefaultLimit == 10

(* options.recency_weight.unwrap_or(0.1), in tenths *)
DefaultRecencyWeight == 1

SecondsPerHour == 3600
HalfLifeHours == 24

(* SearchOptions::default() *)
DefaultOptions ==
    [limit |-> NULL, start_time |-> NULL, end_time |-> NULL, file_types |-> None,
     paths |-> None, min_score |-> NULL, recency_weight |-> NULL]

(* str::to_lowercase over the strings that occur *)
to_lowercase(str) ==
    IF str \in {"TXT", "Txt"} THEN "txt"
    ELSE IF str = "NOTES.TXT" THEN "notes.txt"
    ELSE str

(* file_path.rsplit('.').next().unwrap_or("").to_lowercase(): the text after
   the last dot, which for a name that starts with its only dot is the rest of
   the name, and the whole path when it holds no dot *)
file_type(p) ==
    IF extension(p) # "" THEN to_lowercase(extension(p))
    ELSE IF p = ".gitignore" THEN "gitignore"
    ELSE IF p = ".git" THEN "git"
    ELSE IF p = "." THEN ""
    ELSE to_lowercase(p)

(* str::as_bytes over the paths and the path fragments that occur *)
as_bytes(str) ==
    IF str \in Paths THEN PathBytes(str)[1]
    ELSE CASE str = "" -> <<>>
           [] str = "NOTES.TXT" -> <<"N", "O", "T", "E", "S", ".", "T", "X", "T">>
           [] str = "c.md" -> <<"c", ".", "m", "d">>
           [] str = "." -> <<".">>
           [] str = "a" -> <<"a">>
           [] str = "c" -> <<"c">>
           [] str = "t" -> <<"t">>
           [] str = "x" -> <<"x">>
           [] str = ".t" -> <<".", "t">>
           [] str = "md" -> <<"m", "d">>
           [] str = "txt" -> <<"t", "x", "t">>
           [] str = "TXT" -> <<"T", "X", "T">>
           [] str = ".txt" -> <<".", "t", "x", "t">>

(* str::contains: the bytes of frag stand somewhere in the bytes of p *)
contains(p, frag) ==
    LET Within(haystack, needle) ==
            \E i \in 0..(Len(haystack) - Len(needle)) :
                SubSeq(haystack, i + 1, i + Len(needle)) = needle
    IN Within(as_bytes(p), as_bytes(frag))

(* types.iter().any(|t| t.to_lowercase() == file_type) *)
TypeAllowed(types, p) == \E t \in types : to_lowercase(t) = file_type(p)

Truncate(seq, n) == IF Len(seq) > n THEN SubSeq(seq, 1, n) ELSE seq

(* variant: an element stays in front of a new one only with a larger score *)
StaysBeforeStrict(x, r) == x.score > r.score

(* the stable sort moves r in front of x only when r's score is larger *)
StaysBefore(x, r) == x.score >= r.score

(* Vec::sort_by(|a, b| b.score.partial_cmp(&a.score)): stable, descending.
   Element j stands in front of element k when it came earlier and stays
   before k, or came later and k does not stay before it.  (items and ahead
   are sequences whose elements are computed once) *)
SortByScore(seq) ==
    LET items == seq \o <<>>
        ahead == [k \in 1..Len(items) |->
                    Cardinality({j \in 1..Len(items) :
                                    \/ j < k /\ StaysBefore(items[j], items[k])
                                    \/ j > k /\ ~StaysBefore(items[k], items[j])})] \o <<>>
    IN [p \in 1..Len(items) |-> items[CHOOSE k \in 1..Len(items) : ahead[k] = p - 1]]

RECURSIVE SumFrom(_, _, _)
(* Iterator::sum over zip(..).map(|(a, b)| a * b): the f32 products are added
   one after the other; zip ends with the shorter vector *)
SumFrom(sum, a, b) ==
    IF a = <<>> \/ b = <<>> THEN sum
    ELSE SumFrom(F32Add(sum, Products[Head(a)][Head(b)]), Tail(a), Tail(b))

(* 437-441: the cosine similarity of two vectors, an f32 *)
Dot(a, b) == SumFrom(0, a, b)

(* the cache key of search_chunks_enhanced 340-357 *)
CacheKey(query_embedding, o) ==
    IF o.start_time = NULL /\ o.end_time = NULL /\ o.file_types = None /\ o.paths = None
    THEN Some(VecBytes(query_embedding))
    ELSE None

(* position of a key in the cache, 0 when absent; the cache is the list of
   its entries from most to least recently used *)
CacheIndex(cache, key) ==
    IF \E i \in 1..Len(cache) : cache[i].key = key
    THEN CHOOSE i \in 1..Len(cache) : cache[i].key = key
    ELSE 0

(* variant: a hit leaves the order of the entries as it is *)
CacheTouchKeepsOrder(cache, i) == cache

(* LruCache::get on a present key: the entry becomes the most recently used *)
CacheTouch(cache, i) ==
    <<cache[i]>> \o SubSeq(cache, 1, i - 1) \o SubSeq(cache, i + 1, Len(cache))

(* LruCache::put *)
CachePut(cache, key, value) ==
    Truncate(<<[key |-> key, value |-> value]>> \o SelectSeq(cache, LAMBDA e : e.key # key),
             CacheCapacity)

(* the rows of the SELECT of search_chunks_enhanced, in rowid order *)
SelectEmbedded(fs, cs, o) ==
    LET joined == {[id |-> c.id, content |-> c.content, embedding |-> Unwrap(c.embedding),
                    file_path |-> f.path, last_modified |-> f.last_modified]
                     : <<c, f>> \in {<<c, f>> \in cs \X fs :
                                        /\ c.file_id = f.id
                                        /\ c.embedding # None
                                        /\ o.start_time # NULL => f.last_modified >= o.start_time
                                        /\ o.end_time # NULL => f.last_modified <= o.end_time}}
    IN SortById(joined)

(* variant: a vector of any length is scored *)
SameDimensionLenient(embedding, query_embedding) == TRUE

(* 432-434: embedding.len() != query_embedding.len() skips the row *)
SameDimension(embedding, query_embedding) == Len(embedding) = Len(query_embedding)

(* a min_score, given in hundredths, as the f32 the caller passes *)
MinScoreUnits(min) == F32Div(F32Int(min), F32Int(100))

(* the filters applied to a row before it is scored (396-417, 427-432) *)
RowPasses(row, query_embedding, o) ==
    /\ o.file_types # None => TypeAllowed(Unwrap(o.file_types), row.file_path)
    /\ o.paths # None => \E frag \in Unwrap(o.paths) : contains(row.file_path, frag)
    /\ SameDimension(DecodeBlob(row.embedding), query_embedding)
    /\ o.min_score # NULL =>
          Dot(DecodeBlob(row.embedding), query_embedding) >= MinScoreUnits(o.min_score)

(* 457-459: 1.0 / (1.0 + (age_hours as f32 / 24.0)) *)
recency_boost(age_hours) ==
    F32Div(F32One, F32Add(F32One, F32Div(F32Int(age_hours), F32Int(HalfLifeHours))))

(* the boosts of the ages of up to a week, and 1.0 - recency_weight and
   recency_boost * recency_weight for every weight, each computed once *)
Boosts == [h \in 0..(7 * HalfLifeHours) |-> recency_boost(h)]
Shares == [w \in F32Values |-> F32Sub(F32One, Tenth[w])]
Boosted == [h \in 0..(7 * HalfLifeHours) |-> [w \in F32Values |-> F32Mul(Boosts[h], Tenth[w])]]

(* 450-473: the final score, an f32, of a row with cosine similarity score:
   score * (1.0 - recency_weight) + recency_boost * recency_weight; a weight
   is given in tenths *)
FinalScore(score, last_modified, recency_weight, t) ==
    LET w == IF recency_weight = NULL THEN DefaultRecencyWeight ELSE recency_weight
        age_hours == (IF t > last_modified THEN t - last_modified ELSE 0) \div SecondsPerHour
    IN IF Tenth[w] > 0
       THEN F32Add(F32Mul(score, Shares[w]),
                   IF age_hours \in DOMAIN Boosted THEN Boosted[age_hours][w]
                   ELSE F32Mul(recency_boost(age_hours), Tenth[w]))
       ELSE score


(* the scored and sorted list of a search that missed the cache *)
ScoredChunks(fs, cs, query_embedding, o, t) ==
    LET Scored(rows) ==
            SortByScore([k \in 1..Len(rows) |->
                [id |-> rows[k].id, content |-> rows[k].content,
                 score |-> FinalScore(Dot(DecodeBlob(rows[k].embedding), query_embedding),
                                      rows[k].last_modified, o.recency_weight, t),
                 file_path |-> rows[k].file_path, file_type |-> file_type(rows[k].file_path),
                 last_modified |-> rows[k].last_modified]])
    IN Scored(SelectSeq(SelectEmbedded(fs, cs, o),
                        LAMBDA row : RowPasses(row, query_embedding, o)))

(* 481-492: what a miss stores in the cache *)
CachedChunks(scored_chunks, limit) == Truncate(scored_chunks, cache_limit)

(* variant: the cache is used whatever the options *)
UsesCacheAlways(cache_key) == TRUE

(* 359, 482: the cache is touched only when there is a key *)
UsesCache(cache_key) == cache_key # None

(* Database::search_chunks_enhanced at time t: the results, the cache it
   leaves behind, whether it was answered from the cache and whether it
   returned Ok.  A search that misses the cache runs one SELECT (372-394);
   with fault 1 that statement fails and the call returns the error through
   ?, the cache as it was; a search that hits the cache runs no statement *)
search_chunks_enhanced(fs, cs, cache, query_embedding, o, t, fault) ==
    LET limit == IF o.limit = NULL THEN DefaultLimit ELSE o.limit
        cache_key == CacheKey(query_embedding, o)
        key == IF cache_key = None THEN VecBytes(query_embedding) ELSE Unwrap(cache_key)
        i == IF UsesCache(cache_key) THEN CacheIndex(cache, key) ELSE 0
        Miss(scored_chunks) ==
            [results |-> Truncate(scored_chunks, limit),
             cache |-> IF UsesCache(cache_key)
                       THEN CachePut(cache, key, CachedChunks(scored_chunks, limit))
                       ELSE cache,
             hit |-> FALSE, ok |-> TRUE]
    IN IF i > 0
       THEN LET kept == SelectSeq(cache[i].value,
                                  LAMBDA r : o.min_score # NULL
                                                => r.score >= MinScoreUnits(o.min_score))
            IN [results |-> Truncate(kept, limit), cache |-> CacheTouch(cache, i),
                hit |-> TRUE, ok |-> TRUE]
       ELSE IF fault # 0
       THEN [results |-> <<>>, cache |-> cache, hit |-> FALSE, ok |-> FALSE]
       ELSE Miss(ScoredChunks(fs, cs, query_embedding, o, t))

(* LIMIT 50 of the FTS query *)
FtsLimit == 50

(* FTS5 MATCH of a one-token query against a chunk's content: some token of
   the content, delimited by whitespace, is the term *)
Matches(content, term) ==
    \E i \in 1..Len(content) :
        /\ i + Len(term) - 1 <= Len(content)
        /\ SubSeq(content, i, i + Len(term) - 1) = term
        /\ i > 1 => content[i - 1] \in Whitespace
        /\ i + Len(term) <= Len(content) => content[i + Len(term)] \in Whitespace

RECURSIVE OrderByRank(_, _)
(* ORDER BY fts.rank: the rows in the order that rank, the list of the chunk
   ids from best to worst bm25 value, gives them *)
OrderByRank(rank, rows) ==
    IF rank = <<>> THEN <<>>
    ELSE (IF \E r \in rows : r.id = Head(rank)
          THEN <<CHOOSE r \in rows : r.id = Head(rank)>>
          ELSE <<>>) \o OrderByRank(Tail(rank), rows)

(* search_chunks_hybrid 227-289: the FTS list, chunks_fts JOIN chunks JOIN files *)
fts_results(fs, cs, ft, query_text, o, rank) ==
    LET joined == {[id |-> c.id, content |-> c.content, score |-> 0,
                    file_path |-> f.path, file_type |-> file_type(f.path),
                    last_modified |-> f.last_modified]
                     : <<r, c, f>> \in {<<r, c, f>> \in ft \X cs \X fs :
                                        /\ r.id = c.id
                                        /\ c.file_id = f.id
                                        /\ Matches(r.content, query_text)
                                        /\ o.start_time # NULL => f.last_modified >= o.start_time
                                        /\ o.end_time # NULL => f.last_modified <= o.end_time}}
    IN SelectSeq(Truncate(OrderByRank(rank, joined), FtsLimit),
                 LAMBDA row : /\ o.file_types # None =>
                                    TypeAllowed(Unwrap(o.file_types), row.file_path)
                              /\ o.paths # None =>
                                    \E frag \in Unwrap(o.paths) : contains(row.file_path, frag))

(* let k = 60.0 *)
RrfK == 60

(* limit: Some(50) of the vector search of search_chunks_hybrid *)
VectorFetch == 50

(* variant: the rank counts from 0 *)
RrfTermFromZero(pos) == F32Div(F32One, F32Int(RrfK + pos - 1))

(* 1.0 / (k + (rank as f32 + 1.0)) for the 0-based rank, an f32; pos is the
   1-based position *)
RrfTerm(pos) == F32Div(F32One, F32Int(RrfK + pos))

(* the 1-based position of an id in a result list, 0 when absent *)
PositionOf(list, id) ==
    IF \E i \in 1..Len(list) : list[i].id = id
    THEN CHOOSE i \in 1..Len(list) : list[i].id = id
    ELSE 0

(* 295-305: the score of an id, the f32 sum of what the vector list and then
   the FTS list add to 0.0 *)
RrfScore(vector_list, fts_list, id) ==
    F32Add(IF PositionOf(vector_list, id) > 0 THEN RrfTerm(PositionOf(vector_list, id)) ELSE 0,
           IF PositionOf(fts_list, id) > 0 THEN RrfTerm(PositionOf(fts_list, id)) ELSE 0)

(* variant: the hybrid list is cut to limit before it is sorted *)
RrfCutFirst(vector_list, fts_list, order, limit) ==
    LET ids == SelectSeq(order, LAMBDA id : PositionOf(vector_list, id) > 0
                                            \/ PositionOf(fts_list, id) > 0)
        final_results ==
            [k \in 1..Len(ids) |->
                [(IF PositionOf(vector_list, ids[k]) > 0
                  THEN vector_list[PositionOf(vector_list, ids[k])]
                  ELSE fts_list[PositionOf(fts_list, ids[k])])
                 EXCEPT !.score = RrfScore(vector_list, fts_list, ids[k])]]
    IN SortByScore(Truncate(final_results, limit))

(* 291-319: reciprocal rank fusion of the two lists; order is the order in
   which the HashMap yields its values, a list of the chunk ids *)
Rrf(vector_list, fts_list, order, limit) ==
    LET ids == SelectSeq(order, LAMBDA id : PositionOf(vector_list, id) > 0
                                            \/ PositionOf(fts_list, id) > 0)
        final_results ==
            [k \in 1..Len(ids) |->
                [(IF PositionOf(vector_list, ids[k]) > 0
                  THEN vector_list[PositionOf(vector_list, ids[k])]
                  ELSE fts_list[PositionOf(fts_list, ids[k])])
                 EXCEPT !.score = RrfScore(vector_list, fts_list, ids[k])]]
    IN Truncate(SortByScore(final_results), limit)

(* search_chunks_hybrid 214-223: the options of its vector search *)
vector_options(o) == [o EXCEPT !.limit = VectorFetch, !.min_score = NULL]

----------------------------------------------------------------------------
(* Query surfaces *)

(* payload.limit.unwrap_or(5) and args.limit.unwrap_or(5) *)
HandlerLimit == 5

(* JSON-RPC internal error *)
InternalError == -32603

(* a request of either surface, here with an empty text and no option set *)
NoRequest == [query |-> <<>>, limit |-> NULL, min_score |-> NULL, start_time |-> NULL,
              end_time |-> NULL, file_types |-> None, paths |-> None]


(* format!("{:.2}", x): the hundredths nearest to the exact value, ties to even *)
Round2(x) ==
    LET k == 0 - Expo(x)
        n == 100 * Mant(x)
        q == n \div (2 ^ k)
        rest == RestOf(n % (2 ^ k), 2 ^ k)
    IN IF x = 0 \/ k > 31 THEN 0
       ELSE IF k = 31 THEN (IF n > 2 ^ 30 THEN 1 ELSE 0)
       ELSE IF k <= 0 THEN n * (2 ^ (0 - k))
       ELSE IF rest = 3 \/ (rest = 2 /\ q % 2 = 1) THEN q + 1 ELSE q

(* api::handle_query: the JSON body it answers with, and the cache it
   leaves; an embedding error (142-148) and a search error (176-179, logged
   as "Search error") are both answered with an empty list.  fault is the
   outcome of the Store call *)
handle_query(fs, cs, cache, payload, t, fault) ==
    LET embedding == embed(payload.query)
        options == [limit |-> IF payload.limit = NULL THEN HandlerLimit ELSE payload.limit,
                    start_time |-> payload.start_time, end_time |-> payload.end_time,
                    file_types |-> payload.file_types, paths |-> payload.paths,
                    min_score |-> payload.min_score, recency_weight |-> NULL]
        Json(res) ==
            [surface |-> "http", failure |-> 0,
             results |-> [k \in 1..Len(res.results) |->
                            [content |-> res.results[k].content, score |-> res.results[k].score,
                             file_path |-> res.results[k].file_path,
                             file_type |-> res.results[k].file_type,
                             last_modified |-> res.results[k].last_modified]],
             cache |-> res.cache, found |-> res.results, hit |-> res.hit,
             search_failed |-> ~res.ok]
    IN IF embedding = None
       THEN [surface |-> "http", failure |-> 0, results |-> <<>>, cache |-> cache,
             found |-> <<>>, hit |-> FALSE, search_failed |-> FALSE]
       ELSE Json(search_chunks_enhanced(fs, cs, cache, Unwrap(embedding), options, t, fault))

(* ContextdServer::handle_request, tools/call of search_context: the
   CallToolResult text as its list of hits, each with its score in
   hundredths, or a JsonRpcError code: -32603 for an embedding error
   (220-223) and for a search error (214-217, "Search failed").  fault is
   the outcome of the Store call *)
search_context(fs, cs, cache, args, t, fault) ==
    LET embedding == embed(args.query)
        options == [DefaultOptions EXCEPT
                        !.limit = IF args.limit = NULL THEN HandlerLimit ELSE args.limit,
                        !.min_score = args.min_score,
                        !.file_types = args.file_types]
        Text(res) ==
            [surface |-> "mcp", failure |-> IF res.ok THEN 0 ELSE InternalError,
             results |-> [k \in 1..Len(res.results) |->
                            [file_path |-> res.results[k].file_path,
                             score |-> Round2(res.results[k].score),
                             content |-> res.results[k].content]],
             cache |-> res.cache, found |-> res.results, hit |-> res.hit,
             search_failed |-> ~res.ok]
    IN IF embedding = None
       THEN [surface |-> "mcp", failure |-> InternalError, results |-> <<>>, cache |-> cache,
             found |-> <<>>, hit |-> FALSE, search_failed |-> FALSE]
       ELSE Text(search_chunks_enhanced(fs, cs, cache, Unwrap(embedding), options, t, fault))

----------------------------------------------------------------------------
(* States after Database::new on the database of an earlier run and before
   the initial scan.  Every indexed file was stored with content "a" at time 1
   and indexed at time 2; a.txt was edited since (time 3). *)

FilesOf(indexed) ==
    {[id |-> i, path |-> indexed[i], last_modified |-> 1, last_indexed |-> 2]
        : i \in 1..Len(indexed)}

ChunksOf(indexed) ==
    {[id |-> i, file_id |-> i, start_offset |-> 0, end_offset |-> 1,
      content |-> <<"a">>, embedding |-> embedding_bytes(embed(<<"a">>))]
        : i \in 1..Len(indexed)}

FtsOf(cs) == {[id |-> c.id, content |-> c.content] : c \in cs}

DiskOf(present) ==
    [p \in Paths |->
        IF p \notin present THEN [exists |-> FALSE, dir |-> FALSE, mtime |-> 0, content |-> <<>>]
        ELSE IF p \in {"sub", ".git"}
             THEN [exists |-> TRUE, dir |-> TRUE, mtime |-> 1, content |-> <<>>]
        ELSE IF p = ".gitignore"
             THEN [exists |-> TRUE, dir |-> FALSE, mtime |-> 1, content |-> ContentGitignore]
        ELSE IF p = "a.txt" THEN [exists |-> TRUE, dir |-> FALSE, mtime |-> 3, content |-> ContentAB]
        ELSE IF p = "b.txt" THEN [exists |-> TRUE, dir |-> FALSE, mtime |-> 1, content |-> ContentXC]
        ELSE IF p \in BadFiles
             THEN [exists |-> TRUE, dir |-> FALSE, mtime |-> 3, content |-> ContentBad]
        ELSE [exists |-> TRUE, dir |-> FALSE, mtime |-> 1, content |-> ContentA]]

RECURSIVE SplitSlash(_, _)
(* the components of a pattern between its slashes *)
SplitSlash(s, acc) ==
    IF s = <<>> THEN <<acc>>
    ELSE IF Head(s) = "/" THEN <<acc>> \o SplitSlash(Tail(s), <<>>)
    ELSE SplitSlash(Tail(s), Append(acc, Head(s)))

RECURSIVE GlobMatch(_, _)
(* a glob without separators against one component of a path: a star
   stands for any run of bytes, every other byte for itself *)
GlobMatch(glob, name) ==
    IF glob = <<>> THEN name = <<>>
    ELSE IF Head(glob) = "*"
    THEN GlobMatch(Tail(glob), name) \/ (name # <<>> /\ GlobMatch(glob, Tail(name)))
    ELSE name # <<>> /\ Head(name) = Head(glob) /\ GlobMatch(Tail(glob), Tail(name))

(* GitignoreBuilder::add_line for a rule line: a leading ! makes a
   whitelist rule, a leading slash or a slash inside ties the glob to the
   root, a trailing slash restricts the rule to directories *)
add_line(line) ==
    LET whitelist == line # <<>> /\ Head(line) = "!"
        l1 == IF whitelist THEN Tail(line) ELSE line
        absolute == l1 # <<>> /\ Head(l1) = "/"
        l2 == IF absolute THEN Tail(l1) ELSE l1
        only_dir == l2 # <<>> /\ l2[Len(l2)] = "/"
        l3 == IF only_dir THEN SubSeq(l2, 1, Len(l2) - 1) ELSE l2
        parts == SplitSlash(l3, <<>>)
    IN [parts |-> parts, anchored |-> absolute \/ Len(parts) > 1,
        is_only_dir |-> only_dir, is_whitelist |-> whitelist]

(* IgnoreChecker::new: the rules of .contextignore, then those of .gitignore *)
IgnoreChecker_new(contextignore, gitignore) ==
    LET all == contextignore \o gitignore
    IN [k \in 1..Len(all) |-> add_line(all[k])]

(* the glob of a rule against a path relative to the root: a glob tied to
   the root matches component by component, any other matches the last
   component *)
GlobMatchesPath(glob, path) ==
    IF glob.anchored
    THEN /\ Len(glob.parts) = Len(path)
         /\ \A k \in 1..Len(path) : GlobMatch(glob.parts[k], path[k])
    ELSE GlobMatch(glob.parts[1], path[Len(path)])

(* Gitignore::matched: the last rule whose glob matches and which applies
   to this kind of path decides *)
matched(gitignore, path, dir) ==
    LET hits == {k \in 1..Len(gitignore) :
                    /\ GlobMatchesPath(gitignore[k], path)
                    /\ ~gitignore[k].is_only_dir \/ dir}
    IN IF hits = {} THEN "None"
       ELSE LET last == CHOOSE k \in hits : \A j \in hits : j <= k
            IN IF gitignore[last].is_whitelist THEN "Whitelist" ELSE "Ignore"

(* Path::ancestors without the empty path: the path and its prefixes *)
ancestors(path) == {SubSeq(path, 1, k) : k \in 1..Len(path)}

(* ignore.rs 43-50: some ancestor, matched as a directory, is ignored *)
ParentIgnored(gitignore, path) ==
    \E parent \in ancestors(path) : matched(gitignore, parent, TRUE) = "Ignore"

(* IgnoreChecker::is_ignored for a path relative to the root *)
IgnoreChecker_is_ignored(gitignore, path, dir) ==
    \/ matched(gitignore, path, dir) = "Ignore"
    \/ ParentIgnored(gitignore, path)

RECURSIVE SplitLines(_, _)
(* the lines of a text *)
SplitLines(s, acc) ==
    IF s = <<>> THEN (IF acc = <<>> THEN <<>> ELSE <<acc>>)
    ELSE IF Head(s) = NL THEN <<acc>> \o SplitLines(Tail(s), <<>>)
    ELSE SplitLines(Tail(s), Append(acc, Head(s)))

(* GitignoreBuilder::add(root.join(".gitignore")): the lines of the file,
   none when it cannot be opened *)
GitignoreLines(d) ==
    IF d[".gitignore"].exists /\ ~d[".gitignore"].dir
    THEN SplitLines(d[".gitignore"].content, <<>>)
    ELSE <<>>

(* a name that starts with a dot *)
Hidden(p) == p \in {".git", ".gitignore"}

(* the root lies in a git repository *)
InGitRepository(d) == d[".git"].exists

(* the .gitignore rules as the walker applies them: with require_git, the
   default that daemon.rs 32-35 leaves in place, only inside a git repository *)
WalkerIgnored(d, p) ==
    /\ InGitRepository(d)
    /\ matched(IgnoreChecker_new(<<>>, GitignoreLines(d)), PathBytes(p), d[p].dir) = "Ignore"

(* WalkBuilder with standard_filters(true) (daemon.rs 32-35): the entries
   of the root that the walker yields *)
Walked(d, p) == d[p].exists /\ ~Hidden(p) /\ ~WalkerIgnored(d, p)

(* an existing file that is not a directory *)
PlainFile == [exists |-> TRUE, dir |-> FALSE, mtime |-> 1, content |-> ContentA]

NoResponse == [surface |-> "none", failure |-> 0, results |-> <<>>, found |-> <<>>,
               hit |-> FALSE, search_failed |-> FALSE, request |-> NoRequest]

InitCommon ==
    /\ fts = FtsOf(chunks)
    /\ now = 3
    /\ permits = N
    /\ tasks = <<>>
    /\ scanQueue = SelectSeq(PathList, LAMBDA p : Walked(disk, p))
    /\ walker = NoEntry
    /\ phase = "scan"
    /\ ignore_checkers = <<>>
    /\ pending = <<>>
    /\ observed = [valid |-> FALSE, rows |-> {}]
    /\ issued = NextRowid(chunks) - 1
    /\ query_cache = <<>>
    /\ mcp_cache = <<>>
    /\ response = NoResponse
    /\ input = NoCall
    /\ output = NoCall

(* one watched file, re-indexed either while it is being edited or while the
   Store is queried and hit by errors; c.txt was indexed earlier and has left
   the disk *)
InitRewrite ==
    /\ disk = DiskOf({"a.txt"})
    /\ files = FilesOf(<<"a.txt", "c.txt">>)
    /\ chunks = ChunksOf(<<"a.txt", "c.txt">>)
    /\ budget \in {[mods |-> MaxMods, faults |-> 0, searches |-> 0, events |-> 0],
                   [mods |-> 0, faults |-> MaxFaults, searches |-> MaxSearches, events |-> 0]}
    /\ InitCommon

(* more watched files than permits, all indexed earlier and unchanged since *)
InitSched ==
    /\ disk = [p \in Paths |-> IF p \in TextFiles THEN PlainFile ELSE DiskOf({})[p]]
    /\ files = FilesOf(<<"a.txt", "b.txt", "c.txt", "d.txt", "e.txt">>)
    /\ chunks = ChunksOf(<<"a.txt", "b.txt", "c.txt", "d.txt", "e.txt">>)
    /\ budget = [mods |-> 0, faults |-> 0, searches |-> 0, events |-> 0]
    /\ InitCommon

(* as many watched files as permits, all indexed earlier and unchanged since;
   the watcher reports batches of events *)
InitBusy ==
    /\ disk = [p \in Paths |-> IF p \in TextFiles \ {"e.txt"} THEN PlainFile
                                ELSE DiskOf({})[p]]
    /\ files = FilesOf(<<"a.txt", "b.txt", "c.txt", "d.txt">>)
    /\ chunks = ChunksOf(<<"a.txt", "b.txt", "c.txt", "d.txt">>)
    /\ budget = [mods |-> 0, faults |-> 0, searches |-> 0, events |-> MaxEvents]
    /\ InitCommon

(* a root, inside a git repository or not, with a new file b.txt, an
   unchanged file c.txt, a directory, the ignore file .gitignore and a file
   that its rule names; the watcher reports batches of events *)
InitTree ==
    /\ \E repo \in SUBSET {".git"} :
          disk = DiskOf({"b.txt", "c.txt", "sub", ".gitignore", "build.log"} \cup repo)
    /\ files = FilesOf(<<"c.txt">>)
    /\ chunks = ChunksOf(<<"c.txt">>)
    /\ budget = [mods |-> 0, faults |-> 0, searches |-> 0, events |-> MaxEvents]
    /\ InitCommon

(* a root whose only file was indexed earlier and can no longer be chunked *)
InitBad ==
    /\ \E bad \in BadFiles :
          /\ disk = DiskOf({bad})
          /\ files = FilesOf(<<bad>>)
          /\ chunks = ChunksOf(<<bad>>)
    /\ budget = [mods |-> 0, faults |-> 0, searches |-> 0, events |-> MaxEvents]
    /\ InitCommon

Init == InitRewrite \/ InitTree \/ InitBad

----------------------------------------------------------------------------
(* Index tasks *)

NewTask(kind, path, pc) ==
    [kind |-> kind, path |-> path, pc |-> pc, modified |-> 0, chunks |-> <<>>,
     file_id |-> 0, i |-> 0, chunk_id |-> 0, failed |-> FALSE, prior |-> <<>>]

TaskIds == 1..Len(tasks)

(* variant: acquisition that does not wait *)
CanAcquireAlways(p) == TRUE

(* Semaphore::acquire_owned completes only when a permit is available *)
CanAcquire(p) == p > 0

(* variant: the walker spawns at once and the task takes its permit itself *)
WalkerAcquireInTask(p) == [ready |-> TRUE, permits |-> p, pc |-> "wait"]

(* daemon.rs 51: the walker awaits a permit, which the spawned task then owns *)
WalkerAcquire(p) == [ready |-> CanAcquire(p), permits |-> p - 1, pc |-> "check"]

(* variant: the permit is lost when the task ends *)
ReleasePermitLost(p) == p

(* dropping an OwnedSemaphorePermit returns one permit *)
ReleasePermit(p) == p + 1

(* std::fs::metadata(path).modified() in seconds, 0 when the call fails *)
StatModified(p) == IF disk[p].exists THEN disk[p].mtime ELSE 0

(* variant: a failed read yields a replacement text *)
ReadToStringReplaced(p) == IF disk[p].exists THEN disk[p].content ELSE <<"a">>

(* std::fs::read_to_string(path).unwrap_or_default() *)
ReadToString(p) == IF disk[p].exists THEN disk[p].content ELSE <<>>

(* variant: a chunking error is taken as an empty chunk list *)
ChunksResultLenient(p) == [ok |-> TRUE, chunks |-> <<>>]

(* index_file 161-174: chunks_result, by plugin, by chunk_pdf or by the
   default path over the text read from the file *)
ChunksResult(p) ==
    IF extension(p) \in PluginExts
    THEN LET out == run_parser(plugins(extension(p)), p, disk[p].content)
         IN IF out.ok THEN [ok |-> TRUE, chunks |-> chunk_by_type(out.content, extension(p))]
            ELSE [ok |-> FALSE, chunks |-> <<>>]
    ELSE IF extension(p) = "pdf"
    THEN chunk_pdf(disk[p].exists, disk[p].content)
    ELSE [ok |-> TRUE, chunks |-> chunk_by_type(ReadToString(p), extension(p))]

(* the chunk rows of a file in rowid order, as (start, end, content, embedding) *)
StoredChunks(fs, cs, path) ==
    LET ids == {f.id : f \in {r \in fs : r.path = path}}
        rows == SortById({c \in cs : c.file_id \in ids})
    IN [k \in 1..Len(rows) |->
           [start |-> rows[k].start_offset, end |-> rows[k].end_offset,
            content |-> rows[k].content, embedding |-> rows[k].embedding]]

(* what the loop of index_file stores for a chunk list: one row per chunk, in order *)
TaskPass(cks) ==
    [k \in 1..Len(cks) |->
        [start |-> cks[k].start, end |-> cks[k].end,
         content |-> cks[k].content, embedding |-> embedding_bytes(embed(cks[k].content))]]

(* what one complete pass over a content stores for the file *)
PassOutput(content) == TaskPass(chunk_by_type(content, "txt"))

(* outcomes of a Store call of k statements: 0 is success, j that statement j fails *)
Faults(k) == {0} \cup (IF budget.faults > 0 THEN 1..k ELSE {})

(* db.rs 135 and 154: a task of this process is between the two statements
   of a clear_chunks or add_chunk call, which it runs under the one mutex of
   the connection (self.conn.lock()); every other Store call of the process
   waits for the mutex *)
ConnLocked == \E t \in TaskIds : tasks[t].pc \in {"clear_rows", "insert_fts"}

Spend(fault) == IF fault = 0 THEN budget ELSE [budget EXCEPT !.faults = @ - 1]

(* daemon.rs 121-124: an event task waits for its permit inside the task *)
AcquirePermit(t) ==
    /\ tasks[t].pc = "wait"
    /\ CanAcquire(permits)
    /\ permits' = permits - 1
    /\ tasks' = [tasks EXCEPT ![t].pc = "check"]
    /\ UNCHANGED <<disk, files, chunks, fts, now, scanQueue, walker, phase, ignore_checkers, pending, observed, budget, issued, input, output, query_cache, mcp_cache, response>>

(* index_file 146-159, one step each: the file is statted (147-153); then
   the Store is asked under the connection mutex (156, db.rs 117-132), and
   only Ok(false) returns early *)
NeedsReindex(t) ==
    /\ \/ /\ tasks[t].pc = "check"
          /\ tasks' = [tasks EXCEPT ![t].pc = "ask",
                                      ![t].modified = StatModified(tasks[t].path)]
          /\ UNCHANGED budget
       \/ /\ tasks[t].pc = "ask"
          /\ ~ConnLocked
          /\ \E fault \in Faults(1) :
                /\ budget' = Spend(fault)
                /\ IF fault = 0 /\ ~needs_reindexing(files, tasks[t].path, tasks[t].modified)
                   THEN tasks' = [tasks EXCEPT ![t].pc = "release"]
                   ELSE tasks' = [tasks EXCEPT ![t].pc = "read"]
    /\ UNCHANGED <<disk, files, chunks, fts, now, permits, scanQueue, walker, phase, ignore_checkers, pending, observed, issued, input, output, query_cache, mcp_cache, response>>

(* index_file 161-174 and 233-235: read the file and chunk it; on a chunking
   error log it and return *)
ReadAndChunk(t) ==
    /\ tasks[t].pc = "read"
    /\ LET chunks_result == ChunksResult(tasks[t].path)
       IN IF chunks_result.ok
          THEN tasks' = [tasks EXCEPT ![t].pc = "stat",
                                      ![t].chunks = chunks_result.chunks]
          ELSE tasks' = [tasks EXCEPT ![t].pc = "release"]
    /\ UNCHANGED <<disk, files, chunks, fts, now, permits, scanQueue, walker, phase, ignore_checkers, pending, observed, budget, issued, input, output, query_cache, mcp_cache, response>>

(* index_file 176-182: the file is statted again; this modification time is
   the one that add_or_update_file stores *)
StatAgain(t) ==
    /\ tasks[t].pc = "stat"
    /\ tasks' = [tasks EXCEPT ![t].pc = "upsert",
                                ![t].modified = StatModified(tasks[t].path)]
    /\ UNCHANGED <<disk, files, chunks, fts, now, permits, scanQueue, walker, phase, ignore_checkers, pending, observed, budget, issued, input, output, query_cache, mcp_cache, response>>

(* index_file 201: if let Ok(file_id) = db.add_or_update_file(..) *)
Upsert(t) ==
    /\ tasks[t].pc = "upsert"
    /\ ~ConnLocked
    /\ \E fault \in Faults(2) :
          LET res == add_or_update_file(files, tasks[t].path, tasks[t].modified, fault)
          IN /\ files' = res.files
             /\ budget' = Spend(fault)
             /\ IF res.ok
                THEN tasks' = [tasks EXCEPT ![t].pc = "clear",
                                            ![t].file_id = res.id,
                                            ![t].prior = StoredChunks(files, chunks, tasks[t].path)]
                ELSE tasks' = [tasks EXCEPT ![t].pc = "release"]
    /\ UNCHANGED <<disk, chunks, fts, now, permits, scanQueue, walker, phase, ignore_checkers, pending, observed, issued, input, output, query_cache, mcp_cache, response>>

(* index_file 203: let _ = db.clear_chunks(file_id), one step for each of
   its statements, which commit one by one (db.rs 137-141); when the first
   fails, the second is not run; the call holds the connection mutex from the
   first statement to its return *)
ClearChunks(t) ==
    /\ \E fault \in Faults(1) :
          /\ budget' = Spend(fault)
          /\ \/ /\ tasks[t].pc = "clear"
                /\ ~ConnLocked
                /\ fts' = IF fault = 0 THEN delete_fts_rows(chunks, fts, tasks[t].file_id)
                                       ELSE fts
                /\ chunks' = chunks
                /\ tasks' = [tasks EXCEPT ![t].pc = IF fault = 0 THEN "clear_rows"
                                                    ELSE IF tasks[t].chunks = <<>> THEN "mark"
                                                    ELSE "insert",
                                          ![t].i = 1,
                                          ![t].failed = @ \/ fault # 0]
             \/ /\ tasks[t].pc = "clear_rows"
                /\ chunks' = IF fault = 0 THEN delete_chunk_rows(chunks, tasks[t].file_id)
                                          ELSE chunks
                /\ fts' = fts
                /\ tasks' = [tasks EXCEPT ![t].pc = IF tasks[t].chunks = <<>> THEN "mark"
                                                    ELSE "insert",
                                          ![t].failed = @ \/ fault # 0]
    /\ UNCHANGED <<disk, files, now, permits, scanQueue, walker, phase, ignore_checkers, pending, observed, issued, input, output, query_cache, mcp_cache, response>>

(* index_file 204-229: one iteration of the loop over the chunks, whose
   let _ = db.add_chunk(..) takes one step for each of its statements, which
   commit one by one (db.rs 167-176); when the first fails, the second is not
   run; the call holds the connection mutex from the first statement to its
   return, and chunk_id is its last_insert_rowid *)
AddChunk(t) ==
    /\ \E fault \in Faults(1) :
          LET chunk == tasks[t].chunks[tasks[t].i]
              next == IF tasks[t].i = Len(tasks[t].chunks) THEN "mark" ELSE "insert"
          IN /\ budget' = Spend(fault)
             /\ \/ /\ tasks[t].pc = "insert"
                   /\ ~ConnLocked
                   /\ LET res == insert_chunk_row(files, chunks, tasks[t].file_id, chunk,
                                                  embed(chunk.content))
                      IN IF fault = 0 /\ res.ok
                         THEN /\ chunks' = res.chunks
                              /\ issued' = Max({issued, res.chunk_id})
                              /\ tasks' = [tasks EXCEPT ![t].pc = "insert_fts",
                                                        ![t].chunk_id = res.chunk_id]
                         ELSE /\ chunks' = chunks
                              /\ issued' = issued
                              /\ tasks' = [tasks EXCEPT ![t].pc = next,
                                                        ![t].i = @ + 1,
                                                        ![t].failed = TRUE]
                   /\ fts' = fts
                \/ /\ tasks[t].pc = "insert_fts"
                   /\ LET res == insert_fts_row(fts, tasks[t].chunk_id, chunk.content)
                      IN /\ fts' = IF fault = 0 THEN res.fts ELSE fts
                         /\ tasks' = [tasks EXCEPT ![t].pc = next,
                                                   ![t].i = @ + 1,
                                                   ![t].chunk_id = 0,
                                                   ![t].failed = @ \/ fault # 0 \/ ~res.ok]
                   /\ chunks' = chunks
                   /\ issued' = issued
    /\ UNCHANGED <<disk, files, now, permits, scanQueue, walker, phase, ignore_checkers, pending, observed, query_cache, mcp_cache, response, input, output>>

(* index_file 230: let _ = db.mark_indexed(file_id) *)
MarkIndexed(t) ==
    /\ tasks[t].pc = "mark"
    /\ ~ConnLocked
    /\ \E fault \in Faults(1) :
          /\ files' = IF fault = 0 THEN mark_indexed(files, tasks[t].file_id, now) ELSE files
          /\ budget' = Spend(fault)
          /\ tasks' = [tasks EXCEPT ![t].pc = "release", ![t].failed = @ \/ fault # 0]
    /\ UNCHANGED <<disk, chunks, fts, now, permits, scanQueue, walker, phase, ignore_checkers, pending, observed, issued, input, output, query_cache, mcp_cache, response>>

(* daemon.rs 59 (drop(permit)) and 126 (_permit goes out of scope) *)
Release(t) ==
    /\ tasks[t].pc = "release"
    /\ permits' = ReleasePermit(permits)
    /\ tasks' = [tasks EXCEPT ![t] = NewTask(tasks[t].kind, tasks[t].path,
                                             IF tasks[t].kind = "scan" THEN "inc" ELSE "done")]
    /\ UNCHANGED <<disk, files, chunks, fts, now, scanQueue, walker, phase, ignore_checkers, pending, observed, budget, issued, input, output, query_cache, mcp_cache, response>>

(* daemon.rs 60: pb.inc(1), after the permit was dropped *)
ProgressInc(t) ==
    /\ tasks[t].pc = "inc"
    /\ tasks' = [tasks EXCEPT ![t].pc = "done"]
    /\ UNCHANGED <<disk, files, chunks, fts, now, permits, scanQueue, walker, phase, ignore_checkers, pending, observed, budget, issued, input, output, query_cache, mcp_cache, response>>

----------------------------------------------------------------------------
(* The daemon's main task *)

(* a sequence without its i-th element *)
Without(seq, i) == SubSeq(seq, 1, i - 1) \o SubSeq(seq, i + 1, Len(seq))

(* daemon.rs 37-49: the walker yields one of the entries it has not yielded
   yet (WalkBuilder does not sort, the order is that of the directory) and
   tests whether it is a file now; with a file it goes on to the semaphore *)
WalkerNext ==
    /\ phase = "scan"
    /\ walker = NoEntry
    /\ \E i \in 1..Len(scanQueue) :
          /\ scanQueue' = Without(scanQueue, i)
          /\ walker' = IF disk[scanQueue[i]].exists /\ ~disk[scanQueue[i]].dir
                       THEN scanQueue[i] ELSE NoEntry
    /\ UNCHANGED <<disk, files, chunks, fts, now, permits, tasks, phase, ignore_checkers, pending, observed, budget, issued, input, output, query_cache, mcp_cache, response>>

(* daemon.rs 51-62: the walker awaits a permit for the file it has tested,
   whatever has become of the file since, then spawns the task *)
ScanSpawn ==
    /\ phase = "scan"
    /\ walker # NoEntry
    /\ WalkerAcquire(permits).ready
    /\ permits' = WalkerAcquire(permits).permits
    /\ tasks' = Append(tasks, NewTask("scan", walker, WalkerAcquire(permits).pc))
    /\ walker' = NoEntry
    /\ UNCHANGED <<disk, files, chunks, fts, now, scanQueue, phase, ignore_checkers, pending, observed, budget, issued, input, output, query_cache, mcp_cache, response>>

(* daemon.rs 68-93: the scan is over, the watcher is started and the ignore
   checker of the root is built from the rule files as they are now *)
StartWatcher ==
    /\ phase = "scan"
    /\ scanQueue = <<>>
    /\ walker = NoEntry
    /\ phase' = "loop"
    /\ ignore_checkers' = IgnoreChecker_new(<<>>, GitignoreLines(disk))
    /\ UNCHANGED <<disk, files, chunks, fts, now, permits, tasks, scanQueue, walker, pending, observed, budget, issued, input, output, query_cache, mcp_cache, response>>

(* daemon.rs 113: is_ignored of the checker built when the watcher started *)
is_ignored(p, dir) == IgnoreChecker_is_ignored(ignore_checkers, PathBytes(p), dir)

(* Path::is_file *)
is_file(p) == disk[p].exists /\ ~disk[p].dir

(* Path::is_dir *)
is_dir(p) == disk[p].exists /\ disk[p].dir

(* daemon.rs 107-110: the HashSet of the paths of a batch's events *)
unique_paths(batch) == {batch[i] : i \in 1..Len(batch)}

(* daemon.rs 111: the orders in which the iterator of a HashSet may yield
   the elements of a set *)
IterationOrders(S) ==
    {seq \in [1..Cardinality(S) -> S] :
        \A i, j \in 1..Cardinality(S) : i # j => seq[i] # seq[j]}

(* variant: the check for the ignore file is left out *)
SubmittedWithIgnoreFile(batch) ==
    {p \in unique_paths(batch) : /\ ~is_ignored(p, is_dir(p))
                                 /\ disk[p].exists
                                 /\ ~is_dir(p)}

(* daemon.rs 112-122: the paths of a batch that get an index task *)
Submitted(batch) ==
    {p \in unique_paths(batch) : /\ ~is_ignored(p, is_dir(p))
                                 /\ disk[p].exists
                                 /\ ~is_dir(p)
                                 /\ file_name(p) # ".gitignore"}

(* variant: the loop awaits a permit before it spawns *)
EventSubmitAwaits(p) == [ready |-> CanAcquire(p), permits |-> p - 1, pc |-> "check"]

(* daemon.rs 124-135: tokio::spawn at once; the task awaits the permit itself *)
EventSubmit(p) == [ready |-> TRUE, permits |-> p, pc |-> "wait"]

(* daemon.rs 94-132: one received batch; each distinct path of it that passes
   the checks gets a task, which waits for its permit itself *)
EventLoop ==
    /\ phase = "loop"
    /\ pending # <<>>
    /\ EventSubmit(permits).ready
    /\ permits' = EventSubmit(permits).permits
    /\ \E paths \in IterationOrders(Submitted(pending)) :
          tasks' = tasks \o [k \in 1..Len(paths) |->
                                NewTask("event", paths[k], EventSubmit(permits).pc)]
    /\ pending' = <<>>
    /\ UNCHANGED <<disk, files, chunks, fts, now, scanQueue, walker, phase, ignore_checkers, observed, budget, issued, input, output, query_cache, mcp_cache, response>>

----------------------------------------------------------------------------
(* Environment *)

(* the text an edit leaves in a file *)
Edit(content) == IF content = ContentAB THEN ContentA ELSE ContentAB

(* an editor saves a file, in the current second (d = 0) or a later one;
   the watcher, once started, records the event *)
Modify(p, d) ==
    /\ budget.mods > 0
    /\ disk[p].exists
    /\ budget' = [budget EXCEPT !.mods = @ - 1]
    /\ now' = now + d
    /\ disk' = [disk EXCEPT ![p] = [exists |-> TRUE, dir |-> FALSE, mtime |-> now + d,
                                    content |-> Edit(disk[p].content)]]
    /\ pending' = IF phase = "loop" THEN Append(pending, p) ELSE pending
    /\ UNCHANGED <<files, chunks, fts, permits, tasks, scanQueue, walker, phase, ignore_checkers, observed, issued, input, output, query_cache, mcp_cache, response>>

(* the events of one debounced batch: a file saved twice, the directory, the
   ignore file, an ignored file, a file deleted since, and the files that
   cannot be chunked *)
Batch == <<"c.txt", "sub", ".gitignore", "c.txt", "build.log", "gone.txt",
           "f.pdf", "g.doc", "h.doc", "i.doc", "j.odt">>

(* the watcher, once started, sends a batch to the event loop *)
WatcherBatch(batch) ==
    /\ phase = "loop"
    /\ budget.events > 0
    /\ pending = <<>>
    /\ budget' = [budget EXCEPT !.events = @ - 1]
    /\ pending' = batch
    /\ UNCHANGED <<disk, files, chunks, fts, now, permits, tasks, scanQueue, walker, phase, ignore_checkers, observed, issued, input, output, query_cache, mcp_cache, response>>

(* api::handle_query on the Database of the daemon process (daemon.rs 15,
   76-82), whose query cache is query_cache; a search that misses the cache
   reads its rows under the connection mutex, and its SELECT can fail
   (fault 1) *)
HandleQuery(payload, fault) ==
    \E out \in {handle_query(files, chunks, query_cache, payload, now, fault)} :
       /\ fault # 0 => out.search_failed
       /\ (embed(payload.query) # None /\ ~out.hit) => ~ConnLocked
       /\ query_cache' = out.cache
       /\ response' = [surface |-> out.surface, failure |-> out.failure,
                       results |-> out.results, found |-> out.found,
                       hit |-> out.hit, search_failed |-> out.search_failed,
                       request |-> payload]
       /\ observed' = IF embed(payload.query) # None /\ ~out.hit /\ ~out.search_failed
                      THEN [valid |-> TRUE, rows |-> SearchRows(files, chunks)]
                      ELSE observed
       /\ UNCHANGED <<disk, files, chunks, fts, now, permits, tasks, scanQueue, walker, phase, ignore_checkers, pending, issued, input, output, mcp_cache>>

(* tools/call search_context of the tool-protocol server, a process of its
   own (main.rs 40-57) with its own Database over the same file: it shares
   the rows with the daemon, and its query cache is mcp_cache; the SELECT of
   a search that misses the cache can fail (fault 1) *)
SearchContext(args, fault) ==
    \E out \in {search_context(files, chunks, mcp_cache, args, now, fault)} :
       /\ fault # 0 => out.search_failed
       /\ mcp_cache' = out.cache
       /\ response' = [surface |-> out.surface, failure |-> out.failure,
                       results |-> out.results, found |-> out.found,
                       hit |-> out.hit, search_failed |-> out.search_failed,
                       request |-> args]
       /\ observed' = IF embed(args.query) # None /\ ~out.hit /\ ~out.search_failed
                      THEN [valid |-> TRUE, rows |-> SearchRows(files, chunks)]
                      ELSE observed
       /\ UNCHANGED <<disk, files, chunks, fts, now, permits, tasks, scanQueue, walker, phase, ignore_checkers, pending, issued, input, output, query_cache>>

(* the query a client sends while the daemon indexes *)
DaemonQuery == [NoRequest EXCEPT !.query = <<"a">>]

(* a query over HTTP; the API server is started after the initial scan
   (daemon.rs 75-82) *)
Search ==
    /\ phase = "loop"
    /\ budget.searches > 0
    /\ \E fault \in Faults(1) :
          /\ budget' = [Spend(fault) EXCEPT !.searches = @ - 1]
          /\ HandleQuery(DaemonQuery, fault)

Next ==
    \/ \E t \in TaskIds : AcquirePermit(t)
    \/ \E t \in TaskIds : NeedsReindex(t)
    \/ \E t \in TaskIds : ReadAndChunk(t)
    \/ \E t \in TaskIds : StatAgain(t)
    \/ \E t \in TaskIds : Upsert(t)
    \/ \E t \in TaskIds : ClearChunks(t)
    \/ \E t \in TaskIds : AddChunk(t)
    \/ \E t \in TaskIds : MarkIndexed(t)
    \/ \E t \in TaskIds : Release(t)
    \/ \E t \in TaskIds : ProgressInc(t)
    \/ WalkerNext
    \/ ScanSpawn
    \/ StartWatcher
    \/ EventLoop
    \/ \E p \in Mutable, d \in {0, 1} : Modify(p, d)
    \/ WatcherBatch(Batch)
    \/ Search

Spec == Init /\ [][Next]_vars

----------------------------------------------------------------------------
(* The daemon over watched files that are all indexed and unchanged: the
   scan of more files than there are permits or of as many, and the event
   loop over the batches of the watcher *)

NextSched ==
    \/ \E t \in TaskIds : AcquirePermit(t)
    \/ \E t \in TaskIds : NeedsReindex(t)
    \/ \E t \in TaskIds : Release(t)
    \/ \E t \in TaskIds : ProgressInc(t)
    \/ WalkerNext
    \/ ScanSpawn
    \/ StartWatcher
    \/ EventLoop
    \/ WatcherBatch(Batch)

SpecSched == (InitSched \/ InitBusy) /\ [][NextSched]_vars

(* the events of one debounced batch over the watched files: two files
   saved, one of them twice *)
BusyBatch == <<"a.txt", "b.txt", "a.txt">>

(* the batches that the watcher reports after the first two *)
MaxBatches == 2

(* the tasks so far: those of the scan have ended; those of a first batch,
   which named the four files, have taken the permits and are about to drop
   them; that of a second batch, which named one file, waits for a permit *)
EarlierTasks ==
    [k \in 1..N |-> NewTask("scan", <<"a.txt", "b.txt", "c.txt", "d.txt">>[k], "done")]
    \o [k \in 1..N |-> NewTask("event", <<"a.txt", "b.txt", "c.txt", "d.txt">>[k], "release")]
    \o <<NewTask("event", "a.txt", "wait")>>

(* the daemon some time after the scan of as many files as permits, all
   indexed and unchanged: the watcher is started, the tasks of two batches
   hold the permits or wait for one, and the watcher reports further batches *)
InitEvents ==
    /\ disk = [p \in Paths |-> IF p \in TextFiles \ {"e.txt"} THEN PlainFile
                                ELSE DiskOf({})[p]]
    /\ files = FilesOf(<<"a.txt", "b.txt", "c.txt", "d.txt">>)
    /\ chunks = ChunksOf(<<"a.txt", "b.txt", "c.txt", "d.txt">>)
    /\ budget = [mods |-> 0, faults |-> 0, searches |-> 0, events |-> MaxBatches]
    /\ fts = FtsOf(chunks)
    /\ now = 3
    /\ permits = 0
    /\ tasks = EarlierTasks
    /\ scanQueue = <<>>
    /\ walker = NoEntry
    /\ phase = "loop"
    /\ ignore_checkers = IgnoreChecker_new(<<>>, GitignoreLines(disk))
    /\ pending = <<>>
    /\ observed = [valid |-> FALSE, rows |-> {}]
    /\ issued = NextRowid(chunks) - 1
    /\ query_cache = <<>>
    /\ mcp_cache = <<>>
    /\ response = NoResponse
    /\ input = NoCall
    /\ output = NoCall

NextEvents ==
    \/ \E t \in TaskIds : AcquirePermit(t)
    \/ \E t \in TaskIds : NeedsReindex(t)
    \/ \E t \in TaskIds : Release(t)
    \/ EventLoop
    \/ WatcherBatch(BusyBatch)

SpecEvents == InitEvents /\ [][NextEvents]_vars

----------------------------------------------------------------------------
(* The Store under calls of index_file that run one after another, while the
   file is saved and file rows are deleted *)

MaxPasses == 3

(* the files of the passes: a.txt carries a modification time ahead of the
   clock, so it stays due after a pass; b.txt does not *)
PassPaths == {"a.txt", "b.txt"}

RECURSIVE AddChunks(_, _, _)
(* the loop of index_file 204-229 over a chunk list, without Store errors *)
AddChunks(store, file_id, cks) ==
    IF cks = <<>> THEN store
    ELSE LET res == add_chunk(store.files, store.chunks, store.fts, file_id, Head(cks),
                              embed(Head(cks).content), 0)
         IN AddChunks([store EXCEPT !.chunks = res.chunks, !.fts = res.fts], file_id, Tail(cks))

(* index_file 201-231 run without interruption and without Store errors:
   upsert, clear, insert every chunk, mark indexed at time t *)
RewriteFile(store, path, modified, cks, t) ==
    LET up == add_or_update_file(store.files, path, modified, 0)
        cleared == clear_chunks(store.chunks, store.fts, up.id, 0)
        filled == AddChunks([files |-> up.files, chunks |-> cleared.chunks,
                             fts |-> cleared.fts], up.id, cks)
    IN [filled EXCEPT !.files = mark_indexed(filled.files, up.id, t)]

(* a database file without rows *)
EmptyStore == [files |-> {}, chunks |-> {}, fts |-> {}]

(* the Store is empty, or b.txt was indexed by an earlier run; no Store call
   fails for an outside reason *)
InitStore ==
    /\ disk = DiskOf(PassPaths)
    /\ \E store \in {EmptyStore, RewriteFile(EmptyStore, "b.txt", StatModified("b.txt"),
                                             ChunksResult("b.txt").chunks, 2)} :
          /\ files = store.files /\ chunks = store.chunks /\ fts = store.fts
    /\ now = 2
    /\ permits = N
    /\ tasks = <<>>
    /\ scanQueue = <<>>
    /\ walker = NoEntry
    /\ phase = "scan"
    /\ ignore_checkers = <<>>
    /\ pending = <<>>
    /\ observed = [valid |-> FALSE, rows |-> {}]
    /\ budget = [mods |-> MaxMods, faults |-> 0, searches |-> 0, events |-> 0]
    /\ issued = NextRowid(chunks) - 1
    /\ query_cache = <<>>
    /\ mcp_cache = <<>>
    /\ response = NoResponse
    /\ input = NoCall
    /\ output = NoCall

(* p was indexed at its present modification time and with its present content *)
IndexedAsIs(p) ==
    /\ \E r \in files : r.path = p /\ r.last_modified = StatModified(p) /\ r.last_indexed # NULL
    /\ StoredChunks(files, chunks, p) = PassOutput(ReadToString(p))

(* the number of file rows deleted so far *)
Deleted == Cardinality({t \in TaskIds : tasks[t].kind = "delete"})

(* index_file is called for p, as the daemon's tasks call it; the call then
   runs statement by statement (NeedsReindex .. MarkIndexed) and has returned
   when it stands at "release".  A call starts when the one before it has
   returned.  The start is logged in output: whether p was indexed as it is,
   the chunk set of p, the budget and the number of deleted file rows *)
StartPass(p) ==
    /\ Len(tasks) < MaxPasses
    /\ \A t \in TaskIds : tasks[t].pc \in {"release", "done"}
    /\ tasks' = Append(tasks, NewTask("pass", p, "check"))
    /\ output' = Append(output, [t |-> Len(tasks) + 1, path |-> p,
                                 asis |-> IndexedAsIs(p),
                                 prior |-> StoredChunks(files, chunks, p),
                                 budget |-> budget, deleted |-> Deleted])
    /\ UNCHANGED <<disk, files, chunks, fts, now, permits, scanQueue, walker, phase, ignore_checkers, pending, observed, budget, issued, input, query_cache, mcp_cache, response>>

(* DELETE FROM files WHERE id = ?1 under the schema of Database::init: chunks
   reference files ON DELETE CASCADE, chunks_fts is an FTS5 table of its own
   with no trigger *)
delete_file_row(fs, cs, ft, file_id) ==
    [files |-> {f \in fs : f.id # file_id},
     chunks |-> {c \in cs : c.file_id # file_id},
     fts |-> ft]

(* a file row is deleted *)
DeleteFileRow(file_id) ==
    /\ \E f \in files : f.id = file_id
    /\ Len(tasks) < MaxPasses
    /\ LET out == delete_file_row(files, chunks, fts, file_id)
       IN files' = out.files /\ chunks' = out.chunks /\ fts' = out.fts
    /\ tasks' = Append(tasks, [NewTask("delete", (CHOOSE f \in files : f.id = file_id).path,
                                       "done")
                                  EXCEPT !.file_id = file_id,
                                         !.prior = StoredChunks(files, chunks,
                                             (CHOOSE f \in files : f.id = file_id).path)])
    /\ UNCHANGED <<disk, now, permits, scanQueue, walker, phase, ignore_checkers, pending, observed, budget, issued, input, output, query_cache, mcp_cache, response>>

NextStore ==
    \/ \E p \in PassPaths : StartPass(p)
    \/ \E t \in TaskIds : NeedsReindex(t)
    \/ \E t \in TaskIds : ReadAndChunk(t)
    \/ \E t \in TaskIds : StatAgain(t)
    \/ \E t \in TaskIds : Upsert(t)
    \/ \E t \in TaskIds : ClearChunks(t)
    \/ \E t \in TaskIds : AddChunk(t)
    \/ \E t \in TaskIds : MarkIndexed(t)
    \/ \E id \in {f.id : f \in files} : DeleteFileRow(id)
    \/ \E p \in Mutable, d \in {0, 1} : Modify(p, d)

SpecStore == InitStore /\ [][NextStore]_vars

----------------------------------------------------------------------------
(* The query surfaces over a Store that the daemon has filled *)

Day == 24 * SecondsPerHour

(* the time of the queries *)
QueryTime == 7 * Day

(* the indexed files: path, text and last_modified *)
Indexed ==
    <<[path |-> "a.txt", content |-> ContentAB, last_modified |-> QueryTime],
      [path |-> "b.txt", content |-> ContentXC, last_modified |-> QueryTime - Day],
      [path |-> "c.txt", content |-> ContentA, last_modified |-> 0]>>

RECURSIVE IndexAll(_, _)
(* the Store after complete passes over a list of files *)
IndexAll(store, list) ==
    IF list = <<>> THEN store
    ELSE IndexAll(RewriteFile(store, Head(list).path, Head(list).last_modified,
                              chunk_by_type(Head(list).content, extension(Head(list).path)),
                              QueryTime),
                  Tail(list))

InitSearch ==
    /\ disk = DiskOf({"a.txt", "b.txt", "c.txt"})
    /\ LET store == IndexAll([files |-> {}, chunks |-> {}, fts |-> {}], Indexed)
       IN files = store.files /\ chunks = store.chunks /\ fts = store.fts
    /\ now = QueryTime
    /\ permits = N
    /\ tasks = <<>>
    /\ scanQueue = <<>>
    /\ walker = NoEntry
    /\ phase = "loop"
    /\ ignore_checkers = IgnoreChecker_new(<<>>, GitignoreLines(disk))
    /\ pending = <<>>
    /\ observed = [valid |-> FALSE, rows |-> {}]
    /\ budget = [mods |-> 0, faults |-> MaxFaults, searches |-> 0, events |-> 0]
    /\ issued = NextRowid(chunks) - 1
    /\ query_cache = <<>>
    /\ mcp_cache = <<>>
    /\ response = NoResponse
    /\ input = NoCall
    /\ output = NoCall

(* the texts of the queries; the second cannot be embedded *)
QueryTexts == {<<"a">>, <<"x">>, <<"c">>}

(* the number of filters a request sets *)
FilterCount(req) ==
    (IF req.start_time # NULL THEN 1 ELSE 0) + (IF req.end_time # NULL THEN 1 ELSE 0)
    + (IF req.file_types # None THEN 1 ELSE 0) + (IF req.paths # None THEN 1 ELSE 0)

(* the request bodies of the HTTP surface: at most one filter is set *)
Payloads ==
    {req \in [query : QueryTexts, limit : {NULL, 1}, min_score : {NULL, 70},
              start_time : {NULL, Day}, end_time : {NULL, 6 * Day},
              file_types : {None, Some({"txt"})}, paths : {None, Some({"a.txt"})}] :
        FilterCount(req) <= 1}

(* the arguments of search_context, which has no time and no path filter *)
ToolArgs ==
    [query : {<<"a">>, <<"x">>}, limit : {NULL, 1}, min_score : {NULL, 70},
     start_time : {NULL}, end_time : {NULL},
     file_types : {None, Some({"txt"})}, paths : {None}]

NextSearch ==
    \/ \E payload \in Payloads, fault \in Faults(1) :
          HandleQuery(payload, fault) /\ budget' = Spend(fault)
    \/ \E args \in ToolArgs, fault \in Faults(1) :
          SearchContext(args, fault) /\ budget' = Spend(fault)

SpecSearch == InitSearch /\ [][NextSearch]_vars

----------------------------------------------------------------------------
(* The query cache under more searches than it can hold *)

(* the number of distinct query embeddings searched for *)
MaxQueries == 102

(* the n-th query embedding, in tenths *)
QueryVector(n) == <<n \div 11, n % 11>>

(* the embedding that is searched for again and again *)
HotVector == QueryVector(1)

InitCache ==
    /\ disk = DiskOf({"a.txt", "b.txt", "c.txt"})
    /\ LET store == IndexAll([files |-> {}, chunks |-> {}, fts |-> {}], Indexed)
       IN files = store.files /\ chunks = store.chunks /\ fts = store.fts
    /\ now = QueryTime
    /\ permits = N
    /\ tasks = <<>>
    /\ scanQueue = <<>>
    /\ walker = NoEntry
    /\ phase = "loop"
    /\ ignore_checkers = IgnoreChecker_new(<<>>, GitignoreLines(disk))
    /\ pending = <<>>
    /\ observed = [valid |-> FALSE, rows |-> {}]
    /\ budget = [mods |-> 0, faults |-> 0, searches |-> MaxQueries, events |-> 0]
    /\ issued = NextRowid(chunks) - 1
    /\ query_cache = <<>>
    /\ mcp_cache = <<>>
    /\ response = NoResponse
    /\ input = NoCall
    /\ output = NoCall

(* Database::search_chunks_enhanced called with an embedding; tasks lists the
   embeddings searched for so far, each once, in the order of their last
   search *)
VectorSearch(query_embedding, o) ==
    \E out \in {search_chunks_enhanced(files, chunks, query_cache, query_embedding, o, now, 0)},
       call \in {[kind |-> "search", query_embedding |-> query_embedding]} :
       /\ query_cache' = out.cache
       /\ response' = [surface |-> "db", failure |-> 0, results |-> out.results,
                       found |-> out.results, hit |-> out.hit,
                       search_failed |-> FALSE,
                       request |-> [NoRequest EXCEPT !.limit = o.limit,
                                                     !.min_score = o.min_score]]
       /\ tasks' = Append(SelectSeq(tasks, LAMBDA c : c # call), call)
       /\ UNCHANGED <<disk, files, chunks, fts, now, permits, scanQueue, walker, phase, ignore_checkers, pending,
                      observed, issued, input, output, mcp_cache>>

(* a search for an embedding that was not searched for before *)
FreshSearch ==
    /\ budget.searches > 0
    /\ budget' = [budget EXCEPT !.searches = @ - 1]
    /\ VectorSearch(QueryVector(MaxQueries - budget.searches + 1), DefaultOptions)

(* one more search for the first embedding *)
RepeatSearch ==
    /\ tasks # <<>>
    /\ UNCHANGED budget
    /\ VectorSearch(HotVector, DefaultOptions)

NextCache == FreshSearch \/ RepeatSearch

SpecCache == InitCache /\ [][NextCache]_vars

----------------------------------------------------------------------------
(* Hybrid search over a Store of two indexed files *)

(* the paragraphs of the two files: the first is found by both searches for
   "a", the second as well but with another embedding, the third by the
   vector search only, the fourth, which cannot be embedded, by the keyword
   search only *)
Paragraphs == {<<"a">>, <<"b", " ", "a">>, <<"c">>, <<"x", " ", "a">>}

(* the orders in which the elements of a set can be listed *)
Perms(S) ==
    {f \in [1..Cardinality(S) -> S] : \A i, j \in 1..Cardinality(S) : f[i] = f[j] => i = j}

InitHybrid ==
    /\ disk = DiskOf({"a.txt", "b.txt"})
    /\ \E p1 \in Paragraphs, p2 \in Paragraphs, p3 \in Paragraphs :
          LET store == IndexAll([files |-> {}, chunks |-> {}, fts |-> {}],
                                <<[path |-> "a.txt", content |-> p1 \o <<NL, NL>> \o p2,
                                   last_modified |-> QueryTime - Day],
                                  [path |-> "b.txt", content |-> p3,
                                   last_modified |-> QueryTime]>>)
          IN files = store.files /\ chunks = store.chunks /\ fts = store.fts
    /\ now = QueryTime
    /\ permits = N
    /\ tasks = <<>>
    /\ scanQueue = <<>>
    /\ walker = NoEntry
    /\ phase = "loop"
    /\ ignore_checkers = IgnoreChecker_new(<<>>, GitignoreLines(disk))
    /\ pending = <<>>
    /\ observed = [valid |-> FALSE, rows |-> {}]
    /\ budget = [mods |-> 0, faults |-> 0, searches |-> MaxSearches, events |-> 0]
    /\ issued = NextRowid(chunks) - 1
    /\ query_cache = <<>>
    /\ mcp_cache = <<>>
    /\ response = NoResponse
    /\ input = NoCall
    /\ output = NoCall

(* Database::search_chunks_hybrid 205-224 for a text and its embedding: the
   vector search, which takes and releases the connection lock itself; no
   other call of the function is under way *)
HybridVector(query_text, o) ==
    /\ embed(query_text) # None
    /\ budget.searches > 0
    /\ input = NoCall \/ output # NoCall
    /\ budget' = [budget EXCEPT !.searches = @ - 1]
    /\ LET vector == search_chunks_enhanced(files, chunks, query_cache,
                                            Unwrap(embed(query_text)), vector_options(o), now, 0)
       IN /\ query_cache' = vector.cache
          /\ input' = [query_text |-> query_text, options |-> o,
                       vector_results |-> vector.results, rank |-> <<>>, order |-> <<>>]
    /\ output' = NoCall
    /\ UNCHANGED <<disk, files, chunks, fts, now, permits, tasks, scanQueue, walker, phase, ignore_checkers, pending,
                   observed, issued, response, mcp_cache>>

(* Database::search_chunks_hybrid 226-321: the FTS query, which reads the
   Store as it is when the connection lock is taken again, and the fusion;
   rank is the bm25 order of the chunk ids and order the order in which the
   HashMap yields them *)
HybridFuse(rank, order) ==
    /\ input # NoCall
    /\ output = NoCall
    /\ LET o == input.options
           limit == IF o.limit = NULL THEN DefaultLimit ELSE o.limit
           fts_list == fts_results(files, chunks, fts, input.query_text, o, rank)
       IN output' = [vector_results |-> input.vector_results, fts_results |-> fts_list,
                     results |-> Rrf(input.vector_results, fts_list, order, limit)]
    /\ input' = [input EXCEPT !.rank = rank, !.order = order]
    /\ UNCHANGED <<disk, files, chunks, fts, now, permits, tasks, scanQueue, walker, phase, ignore_checkers, pending,
                   observed, budget, issued, query_cache, response, mcp_cache>>

NextHybrid ==
    \/ \E limit \in {NULL, 1, 2} :
          HybridVector(<<"a">>, [DefaultOptions EXCEPT !.limit = limit])
    \/ \E rank \in Perms({c.id : c \in chunks}), order \in Perms({c.id : c \in chunks}) :
          HybridFuse(rank, order)

SpecHybrid == InitHybrid /\ [][NextHybrid]_vars

----------------------------------------------------------------------------
(* Vector search called on Stores of several kinds *)

(* the number of searches on one Store *)
MaxCalls == 2

(* a Store given by its file rows and its chunk rows in rowid order; every
   chunk has the text "a" *)
StoreOf(file_list, chunk_list) ==
    LET cs == {[id |-> j, file_id |-> chunk_list[j].file_id, start_offset |-> 0,
                end_offset |-> 1, content |-> <<"a">>, embedding |-> chunk_list[j].embedding]
                 : j \in 1..Len(chunk_list)}
    IN [files |-> {[id |-> i, path |-> file_list[i].path,
                    last_modified |-> file_list[i].last_modified,
                    last_indexed |-> QueryTime] : i \in 1..Len(file_list)},
        chunks |-> cs, fts |-> FtsOf(cs)]

(* the embedding column of a vector *)
Blob(v) == Some(VecBytes(v))

(* modification times: now, five minutes ago, a week ago *)
Times == {QueryTime, QueryTime - 300, QueryTime - 7 * Day}

(* two files with one chunk each, both with the embedding of the query *)
RecencyStores ==
    {StoreOf(<<[path |-> "a.txt", last_modified |-> t1],
               [path |-> "b.txt", last_modified |-> t2]>>,
             <<[file_id |-> 1, embedding |-> Blob(<<10, 0>>)],
               [file_id |-> 2, embedding |-> Blob(<<10, 0>>)]>>) : t1 \in Times, t2 \in Times}

(* one file with two chunks more than the default limit; every third chunk
   has the same embedding *)
ManyStore ==
    StoreOf(<<[path |-> "a.txt", last_modified |-> QueryTime]>>,
            [j \in 1..(DefaultLimit + 2) |->
                [file_id |-> 1,
                 embedding |-> Blob(IF j % 3 = 0 THEN <<10, 0>>
                                    ELSE IF j % 3 = 1 THEN <<6, 8>> ELSE <<8, 6>>)]])

(* files that differ in extension, case and age; the chunk of a.txt has the
   cosine 0.6 with the query *)
FilterStore ==
    StoreOf(<<[path |-> "a.txt", last_modified |-> QueryTime],
              [path |-> "NOTES.TXT", last_modified |-> QueryTime - Day],
              [path |-> "c.md", last_modified |-> QueryTime - 7 * Day]>>,
            <<[file_id |-> 1, embedding |-> Blob(<<6, 8>>)],
              [file_id |-> 2, embedding |-> Blob(<<10, 0>>)],
              [file_id |-> 3, embedding |-> Blob(<<10, 0>>)],
              [file_id |-> 3, embedding |-> Blob(<<0, 10>>)]>>)

(* embeddings of other dimensions next to those of the query's dimension:
   one and three values, six bytes, nine bytes, and none at all *)
DriftStore ==
    StoreOf(<<[path |-> "a.txt", last_modified |-> QueryTime]>>,
            <<[file_id |-> 1, embedding |-> Blob(<<10>>)],
              [file_id |-> 1, embedding |-> Blob(<<10, 0>>)],
              [file_id |-> 1, embedding |-> Blob(<<10, 0, 0>>)],
              [file_id |-> 1, embedding |-> Some(VecBytes(<<10>>) \o <<0, 0>>)],
              [file_id |-> 1, embedding |-> Some(VecBytes(<<8, 6>>) \o <<63>>)],
              [file_id |-> 1, embedding |-> None],
              [file_id |-> 1, embedding |-> Some(<<>>)]>>)

InitVector ==
    /\ disk = DiskOf({})
    /\ \E store \in RecencyStores \cup {ManyStore, FilterStore, DriftStore} :
          files = store.files /\ chunks = store.chunks /\ fts = store.fts
    /\ now = QueryTime
    /\ permits = N
    /\ tasks = <<>>
    /\ scanQueue = <<>>
    /\ walker = NoEntry
    /\ phase = "loop"
    /\ ignore_checkers = IgnoreChecker_new(<<>>, GitignoreLines(disk))
    /\ pending = <<>>
    /\ observed = [valid |-> FALSE, rows |-> {}]
    /\ budget = [mods |-> 0, faults |-> 0, searches |-> MaxCalls, events |-> 0]
    /\ issued = NextRowid(chunks) - 1
    /\ query_cache = <<>>
    /\ mcp_cache = <<>>
    /\ response = NoResponse
    /\ input = NoCall
    /\ output = NoCall

(* the options of the searches: at most one filter is set *)
VectorOptions ==
    {o \in [limit : {NULL, 1}, min_score : {NULL, 62}, recency_weight : {NULL, 5},
            start_time : {NULL, QueryTime - Day}, end_time : {NULL, QueryTime - Day},
            file_types : {None, Some({"TXT"})},
            paths : {None, Some({"a.txt"}), Some({".t"})}] :
        FilterCount(o) <= 1}

(* Database::search_chunks_enhanced, its arguments and its result recorded *)
EnhancedSearch(query_embedding, o) ==
    \E out \in {search_chunks_enhanced(files, chunks, query_cache, query_embedding, o, now, 0)} :
       /\ budget.searches > 0
       /\ budget' = [budget EXCEPT !.searches = @ - 1]
       /\ query_cache' = out.cache
       /\ input' = [query_embedding |-> query_embedding, options |-> o]
       /\ output' = [results |-> out.results, hit |-> out.hit]
       /\ UNCHANGED <<disk, files, chunks, fts, now, permits, tasks, scanQueue, walker, phase, ignore_checkers, pending,
                      observed, issued, response, mcp_cache>>

NextVector == \E o \in VectorOptions : EnhancedSearch(<<10, 0>>, o)

SpecVector == InitVector /\ [][NextVector]_vars

----------------------------------------------------------------------------
(* The chunkers called on texts of a few lines *)

MaxLines == 5

(* the lines the texts are made of: headings of three levels, a line of
   text and the empty line *)
LineKinds == {<<"#", " ", "a">>, <<"#", "#", " ", "b">>, <<"#", "#", "#", " ", "c">>,
              <<"t">>, <<>>}

RECURSIVE JoinLines(_)
(* the lines with a newline between them *)
JoinLines(lines) ==
    IF lines = <<>> THEN <<>>
    ELSE IF Len(lines) = 1 THEN Head(lines)
    ELSE Head(lines) \o <<NL>> \o JoinLines(Tail(lines))

(* texts of at most MaxLines lines, with or without a final newline *)
Texts ==
    {JoinLines(lines) \o tail :
        lines \in UNION {[1..n -> LineKinds] : n \in 0..MaxLines}, tail \in {<<>>, <<NL>>}}

InitChunk ==
    /\ disk = DiskOf({})
    /\ files = {}
    /\ chunks = {}
    /\ fts = {}
    /\ now = QueryTime
    /\ permits = N
    /\ tasks = <<>>
    /\ scanQueue = <<>>
    /\ walker = NoEntry
    /\ phase = "loop"
    /\ ignore_checkers = IgnoreChecker_new(<<>>, GitignoreLines(disk))
    /\ pending = <<>>
    /\ observed = [valid |-> FALSE, rows |-> {}]
    /\ budget = [mods |-> 0, faults |-> 0, searches |-> 0, events |-> 0]
    /\ issued = 0
    /\ query_cache = <<>>
    /\ mcp_cache = <<>>
    /\ response = NoResponse
    /\ input \in [content : Texts, ext : {"txt", "md"}]
    /\ output = NoCall

(* chunk_by_type(&content, ext) *)
ChunkByType ==
    /\ output = NoCall
    /\ output' = [chunks |-> chunk_by_type(input.content, input.ext)]
    /\ UNCHANGED <<disk, files, chunks, fts, now, permits, tasks, scanQueue, walker, phase, ignore_checkers, pending,
                   observed, budget, issued, query_cache, mcp_cache, response, input>>

NextChunk == ChunkByType

SpecChunk == InitChunk /\ [][NextChunk]_vars

----------------------------------------------------------------------------
(* The ignore checker of a root with rule files *)

MaxRules == 2
MaxChecks == 2

(* rule lines: *.t, n, b/, !k.t, /s, s/g *)
RuleLines == {<<"*", ".", "t">>, <<"n">>, <<"b", "/">>, <<"!", "k", ".", "t">>,
              <<"/", "s">>, <<"s", "/", "g">>}

RuleFiles == UNION {[1..n -> RuleLines] : n \in 0..MaxRules}

(* the paths below the root that are checked *)
CheckedPaths ==
    {<<<<"n">>>>, <<<<"n">>, <<"p">>>>, <<<<"n">>, <<"k", ".", "t">>>>, <<<<"a", ".", "t">>>>,
     <<<<"b">>>>, <<<<"s">>>>, <<<<"s">>, <<"g">>>>, <<<<"s">>, <<"n">>, <<"p">>>>,
     <<<<"m">>, <<"s">>>>}

InitIgnore ==
    /\ disk = DiskOf({})
    /\ files = {}
    /\ chunks = {}
    /\ fts = {}
    /\ now = QueryTime
    /\ permits = N
    /\ tasks = <<>>
    /\ scanQueue = <<>>
    /\ walker = NoEntry
    /\ phase = "loop"
    /\ ignore_checkers = IgnoreChecker_new(<<>>, GitignoreLines(disk))
    /\ pending = <<>>
    /\ observed = [valid |-> FALSE, rows |-> {}]
    /\ budget = [mods |-> 0, faults |-> 0, searches |-> MaxChecks, events |-> 0]
    /\ issued = 0
    /\ query_cache = <<>>
    /\ mcp_cache = <<>>
    /\ response = NoResponse
    /\ input \in [contextignore : RuleFiles, gitignore : {<<>>}]
    /\ output = {}

(* checker.is_ignored(&root.join(path), dir) on the checker of the root;
   output collects the calls made and what they returned *)
IsIgnored(path, dir) ==
    LET checker == IgnoreChecker_new(input.contextignore, input.gitignore)
    IN /\ budget.searches > 0
       /\ budget' = [budget EXCEPT !.searches = @ - 1]
       /\ output' = output \cup {[path |-> path, is_dir |-> dir,
                                   ignored |-> IgnoreChecker_is_ignored(checker, path, dir)]}
       /\ UNCHANGED <<disk, files, chunks, fts, now, permits, tasks, scanQueue, walker, phase, ignore_checkers, pending,
                      observed, issued, query_cache, mcp_cache, response, input>>

NextIgnore == \E path \in CheckedPaths, dir \in BOOLEAN : IsIgnored(path, dir)

SpecIgnore == InitIgnore /\ [][NextIgnore]_vars

----------------------------------------------------------------------------
(* The plugin runner called on processes of every kind *)

MaxOut == 2

(* what a process writes to stdout *)
Stdouts == UNION {[1..n -> {"a", LeadByte, ContinuationByte, NeverByte}] : n \in 0..MaxOut}

Processes ==
    [spawned : BOOLEAN, seconds : {1, PluginTimeoutSecs - 1, PluginTimeoutSecs + 1, PluginTimeoutSecs + 5},
     status : {0, 1}, stdout : Stdouts]

InitPlugin ==
    /\ disk = DiskOf({})
    /\ files = {}
    /\ chunks = {}
    /\ fts = {}
    /\ now = QueryTime
    /\ permits = N
    /\ tasks = <<>>
    /\ scanQueue = <<>>
    /\ walker = NoEntry
    /\ phase = "loop"
    /\ ignore_checkers = IgnoreChecker_new(<<>>, GitignoreLines(disk))
    /\ pending = <<>>
    /\ observed = [valid |-> FALSE, rows |-> {}]
    /\ budget = [mods |-> 0, faults |-> 0, searches |-> 0, events |-> 0]
    /\ issued = 0
    /\ query_cache = <<>>
    /\ mcp_cache = <<>>
    /\ response = NoResponse
    /\ input \in [cmd : {<<>>, <<"parse">>}, process : Processes]
    /\ output = NoCall

(* run_parser(&cmd, file_path).await *)
RunParser ==
    /\ output = NoCall
    /\ output' = run_command(input.cmd, input.process)
    /\ UNCHANGED <<disk, files, chunks, fts, now, permits, tasks, scanQueue, walker, phase, ignore_checkers, pending,
                   observed, budget, issued, query_cache, mcp_cache, response, input>>

NextPlugin == RunParser

SpecPlugin == InitPlugin /\ [][NextPlugin]_vars

----------------------------------------------------------------------------
(* The watcher thread between the notify channel and the sink *)

MaxRaw == 3
MaxWindows == 2

(* what notify puts on its channel: an event for a path, stamped with the
   debounce window it falls in, or an error *)
RawEvent(p, window) == [ok |-> TRUE, path |-> p, window |-> window]
RawError(window) == [ok |-> FALSE, path |-> "", window |-> window]

(* input is the notify channel (notify_rx), output the sink (tx), now the
   number of the current debounce window *)
InitWatch ==
    /\ disk = DiskOf({})
    /\ files = {}
    /\ chunks = {}
    /\ fts = {}
    /\ now = 0
    /\ permits = N
    /\ tasks = <<>>
    /\ scanQueue = <<>>
    /\ walker = NoEntry
    /\ phase = "loop"
    /\ ignore_checkers = IgnoreChecker_new(<<>>, GitignoreLines(disk))
    /\ pending = <<>>
    /\ observed = [valid |-> FALSE, rows |-> {}]
    /\ budget = [mods |-> 0, faults |-> 0, searches |-> 0, events |-> MaxRaw]
    /\ issued = 0
    /\ query_cache = <<>>
    /\ mcp_cache = <<>>
    /\ response = NoResponse
    /\ input = <<>>
    /\ output = <<>>

(* the filesystem changes a watched path, or notify reports an error *)
Notify(res) ==
    /\ budget.events > 0
    /\ budget' = [budget EXCEPT !.events = @ - 1]
    /\ input' = Append(input, res)
    /\ UNCHANGED <<disk, files, chunks, fts, now, permits, tasks, scanQueue, walker, phase, ignore_checkers, pending,
                   observed, issued, query_cache, mcp_cache, response, output>>

(* a debounce window ends *)
WindowEnds ==
    /\ now < MaxWindows
    /\ now' = now + 1
    /\ UNCHANGED <<disk, files, chunks, fts, permits, tasks, scanQueue, walker, phase, ignore_checkers, pending,
                   observed, budget, issued, query_cache, mcp_cache, response, input, output>>

(* watcher.rs 14-22: the thread takes the next item of notify_rx and sends
   an event on, or prints an error *)
Forward ==
    /\ input # <<>>
    /\ input' = Tail(input)
    /\ output' = IF Head(input).ok THEN Append(output, <<Head(input)>>) ELSE output
    /\ UNCHANGED <<disk, files, chunks, fts, now, permits, tasks, scanQueue, walker, phase, ignore_checkers, pending,
                   observed, budget, issued, query_cache, mcp_cache, response>>

NextWatch ==
    \/ \E p \in {"a.txt", "b.txt"} : Notify(RawEvent(p, now))
    \/ Notify(RawError(now))
    \/ WindowEnds
    \/ Forward

SpecWatch == InitWatch /\ [][NextWatch]_vars

----------------------------------------------------------------------------
(* The daemon over a root whose file is edited or leaves the disk *)

(* a.txt changed since it was indexed, c.txt was indexed earlier and has
   left the disk; a.txt may be edited or removed while the daemon runs *)
InitRemove ==
    /\ disk = DiskOf({"a.txt"})
    /\ files = FilesOf(<<"a.txt", "c.txt">>)
    /\ chunks = ChunksOf(<<"a.txt", "c.txt">>)
    /\ budget = [mods |-> MaxMods, faults |-> 0, searches |-> 0, events |-> 0]
    /\ InitCommon

(* a file is deleted or renamed away; the watcher, once started, records
   the event *)
Remove(p) ==
    /\ budget.mods > 0
    /\ disk[p].exists
    /\ budget' = [budget EXCEPT !.mods = @ - 1]
    /\ disk' = [disk EXCEPT ![p] = [exists |-> FALSE, dir |-> FALSE, mtime |-> 0,
                                    content |-> <<>>]]
    /\ pending' = IF phase = "loop" THEN Append(pending, p) ELSE pending
    /\ UNCHANGED <<files, chunks, fts, now, permits, tasks, scanQueue, walker, phase, ignore_checkers, observed, issued,
                   input, output, query_cache, mcp_cache, response>>

NextRemove ==
    \/ \E t \in TaskIds : AcquirePermit(t)
    \/ \E t \in TaskIds : NeedsReindex(t)
    \/ \E t \in TaskIds : ReadAndChunk(t)
    \/ \E t \in TaskIds : StatAgain(t)
    \/ \E t \in TaskIds : Upsert(t)
    \/ \E t \in TaskIds : ClearChunks(t)
    \/ \E t \in TaskIds : AddChunk(t)
    \/ \E t \in TaskIds : MarkIndexed(t)
    \/ \E t \in TaskIds : Release(t)
    \/ \E t \in TaskIds : ProgressInc(t)
    \/ WalkerNext
    \/ ScanSpawn
    \/ StartWatcher
    \/ EventLoop
    \/ \E p \in Mutable, d \in {0, 1} : Modify(p, d)
    \/ \E p \in Mutable : Remove(p)

SpecRemove == InitRemove /\ [][NextRemove]_vars

----------------------------------------------------------------------------
(* Hybrid search over Stores with more rows than a list takes, and over a
   Store that is written between two searches *)

MaxFusions == 2

(* a small Store: a.txt holds a chunk found by both searches for "a", one
   found by the vector search only and one found by both whose embedding is
   another; b.txt holds a chunk that cannot be embedded, which the keyword
   search alone finds, and one more found by both *)
MixedFiles ==
    <<[path |-> "a.txt",
       content |-> <<"a", NL, NL, "c", NL, NL, "b", " ", "a">>,
       last_modified |-> QueryTime - Day],
      [path |-> "b.txt",
       content |-> <<"x", " ", "a", NL, NL, "a">>,
       last_modified |-> QueryTime - Day]>>

(* a Store with two chunks more than a list takes, all found by both searches *)
CrowdedStore ==
    StoreOf(<<[path |-> "a.txt", last_modified |-> QueryTime - Day]>>,
            [j \in 1..(VectorFetch + 2) |-> [file_id |-> 1, embedding |-> Blob(<<10, 0>>)]])

InitFusion ==
    /\ disk = DiskOf({"a.txt", "b.txt"})
    /\ \E store \in {IndexAll([files |-> {}, chunks |-> {}, fts |-> {}], MixedFiles),
                      CrowdedStore} :
          files = store.files /\ chunks = store.chunks /\ fts = store.fts
    /\ now = QueryTime
    /\ permits = N
    /\ tasks = <<>>
    /\ scanQueue = <<>>
    /\ walker = NoEntry
    /\ phase = "loop"
    /\ ignore_checkers = IgnoreChecker_new(<<>>, GitignoreLines(disk))
    /\ pending = <<>>
    /\ observed = [valid |-> FALSE, rows |-> {}]
    /\ budget = [mods |-> MaxMods, faults |-> 0, searches |-> MaxFusions, events |-> 0]
    /\ issued = NextRowid(chunks) - 1
    /\ query_cache = <<>>
    /\ mcp_cache = <<>>
    /\ response = NoResponse
    /\ input = NoCall
    /\ output = NoCall

(* index_file 201: an index task for the file has made its
   add_or_update_file call with the file's new modification time *)
UpsertOnly(p) ==
    /\ budget.mods > 0
    /\ budget' = [budget EXCEPT !.mods = @ - 1]
    /\ files' = add_or_update_file(files, p, now, 0).files
    /\ UNCHANGED <<disk, chunks, fts, now, permits, tasks, scanQueue, walker, phase, ignore_checkers, pending, observed,
                   issued, query_cache, mcp_cache, response, input, output>>

(* the chunk ids in rising and in falling order *)
Rising(cs) == [k \in 1..Cardinality(cs) |-> SortById(cs)[k].id]
Falling(cs) == [k \in 1..Cardinality(cs) |-> SortById(cs)[Cardinality(cs) + 1 - k].id]

NextFusion ==
    \/ \E limit \in {NULL, 1, 2, VectorFetch + 1} :
          HybridVector(<<"a">>, [DefaultOptions EXCEPT !.limit = limit])
    \/ \E rank \in {Rising(chunks), Falling(chunks)},
          order \in {Rising(chunks), Falling(chunks)} :
           HybridFuse(rank, order)
    \/ UpsertOnly("a.txt")

SpecFusion == InitFusion /\ [][NextFusion]_vars

----------------------------------------------------------------------------
(* Vocabulary of the properties *)

RowOf(fs, path) == CHOOSE r \in fs : r.path = path

HasRow(fs, path) == \E r \in fs : r.path = path

(* a task between taking its permit and dropping it *)
HoldsPermit(t) ==
    tasks[t].pc \in {"check", "ask", "read", "stat", "upsert", "clear", "clear_rows",
                      "insert", "insert_fts", "mark", "release"}

(* index_file has returned in task t *)
Returned(t) == tasks[t].pc \in {"release", "inc", "done"}

(* the contents a search saw for a file, in rowid order *)
ObservedOf(path) ==
    LET rows == SortById({r \in observed.rows : r.file_path = path})
    IN [k \in 1..Len(rows) |-> rows[k].content]

(* the contents of a complete pass that vector search can return *)
VisiblePass(content) ==
    LET out == SelectSeq(PassOutput(content), LAMBDA c : c.embedding # None)
    IN [k \in 1..Len(out) |-> out[k].content]

----------------------------------------------------------------------------
(* C1: if a step of a file's re-index (clear_chunks, an insert_chunk,
   mark_indexed) fails, then once the task is over the file's previous chunk
   set is the stored one, last_indexed is NULL and needs_reindex is true. *)
C1_FailedRewriteRollsBack ==
    \A t \in TaskIds :
        (tasks[t].pc = "release" /\ tasks[t].failed) =>
            /\ StoredChunks(files, chunks, tasks[t].path) = tasks[t].prior
            /\ RowOf(files, tasks[t].path).last_indexed = NULL
            /\ needs_reindexing(files, tasks[t].path, StatModified(tasks[t].path))

(* C2: a search sees, for every file, the complete chunk set of one pass
   (the previous one or the new one), never an empty or partial set. *)
C2_SearchSeesWholePass ==
    observed.valid =>
        \A f \in files : ObservedOf(f.path) \in {VisiblePass(c) : c \in Contents}

(* C3: once all of several index tasks for one path have finished (none of
   them having met a Store error), the stored chunks of the file are exactly
   the output of one chunking pass. *)
C3_ConcurrentTasksLeaveOnePass ==
    \A p \in Paths :
        LET ts == {t \in TaskIds : tasks[t].path = p}
        IN (Cardinality(ts) >= 2 /\ (\A t \in ts : Returned(t) /\ ~tasks[t].failed))
           => StoredChunks(files, chunks, p) \in {PassOutput(c) : c \in Contents}

(* C4: upsert_file leaves last_indexed NULL, and mark_indexed sets it only
   when every Store call of the task's rewrite succeeded and the file's chunk
   set is the task's complete pass. *)
C4_IndexedOnlyAfterFullRewrite ==
    [][\A t \in TaskIds :
          /\ (tasks[t].pc = "upsert" /\ tasks'[t].pc = "clear")
                => RowOf(files', tasks[t].path).last_indexed = NULL
          /\ (tasks[t].pc = "mark" /\ tasks'[t].pc = "release" /\ budget' = budget)
                => /\ ~tasks[t].failed
                   /\ StoredChunks(files, chunks, tasks[t].path) = TaskPass(tasks[t].chunks)]_vars

(* C5: the first Store error in a task (upsert_file, clear_chunks,
   insert_chunk, mark_indexed) ends the task: index_file returns without
   another Store call and the failing call does not set last_indexed. *)
C5_FirstStoreErrorAborts ==
    [][\A t \in TaskIds :
          (tasks[t].pc \in {"upsert", "clear", "clear_rows", "insert", "insert_fts", "mark"}
             /\ tasks'[t] # tasks[t] /\ budget'.faults < budget.faults)
          => /\ tasks'[t].pc = "release"
             /\ HasRow(files', tasks[t].path) =>
                   \/ RowOf(files', tasks[t].path).last_indexed = NULL
                   \/ /\ HasRow(files, tasks[t].path)
                      /\ RowOf(files', tasks[t].path).last_indexed
                            = RowOf(files, tasks[t].path).last_indexed]_vars

(* C6: the FTS shadow has a row with key c iff a chunk row with id c exists,
   with that chunk's content; so the two row counts agree for every file. *)
C6_FtsMirrorsChunks ==
    /\ fts = {[id |-> c.id, content |-> c.content] : c \in chunks}
    /\ \A f \in files :
          Cardinality({c \in chunks : c.file_id = f.id})
            = Cardinality({r \in fts : \E c \in chunks : c.id = r.id /\ c.file_id = f.id})

(* the condition under which the file is due for indexing *)
ReindexDue(fs, path, current_modified) ==
    \/ ~\E r \in fs : r.path = path
    \/ \E r \in fs : r.path = path /\ r.last_indexed = NULL
    \/ \E r \in fs : r.path = path /\ r.last_indexed # NULL /\ current_modified > r.last_indexed

(* C7: needs_reindex(path, current_modified) is true iff the path has no file
   row, or its last_indexed is NULL, or current_modified > last_indexed; the
   call leaves the Store unchanged. *)
C7_NeedsReindexContract ==
    [][\A t \in TaskIds :
          (tasks[t].pc = "ask" /\ tasks'[t].pc # "ask" /\ budget' = budget)
          => /\ (tasks'[t].pc = "read") <=> ReindexDue(files, tasks[t].path, tasks[t].modified)
             /\ (tasks'[t].pc = "release") <=> ~ReindexDue(files, tasks[t].path, tasks[t].modified)
             /\ files' = files /\ chunks' = chunks /\ fts' = fts]_vars

(* an event task returned early for a file modified in the very second it
   was indexed *)
C7_Witness ==
    \E t \in TaskIds :
        /\ tasks[t].kind = "event" /\ tasks[t].pc = "release"
        /\ tasks[t].file_id = 0 /\ tasks[t].chunks = <<>>
        /\ HasRow(files, tasks[t].path)
        /\ RowOf(files, tasks[t].path).last_indexed = tasks[t].modified

UniquePaths(fs) == \A r1, r2 \in fs : r1.path = r2.path => r1 = r2

(* C8: upsert_file on a present path returns the id the path already has,
   sets last_modified and resets last_indexed to NULL; over any step the id
   of a path does not change and no two file rows share a path. *)
C8_UpsertKeepsId ==
    [][/\ \A r \in files : \E r2 \in files' : r2.path = r.path /\ r2.id = r.id
       /\ UniquePaths(files')
       /\ \A r1, r2 \in files' : r1.id = r2.id => r1 = r2
       /\ \A t \in TaskIds :
             (tasks[t].pc = "upsert" /\ tasks'[t].pc = "clear")
             => /\ HasRow(files', tasks[t].path)
                /\ tasks'[t].file_id = RowOf(files', tasks[t].path).id
                /\ RowOf(files', tasks[t].path).last_modified = tasks[t].modified
                /\ RowOf(files', tasks[t].path).last_indexed = NULL
                /\ HasRow(files, tasks[t].path)
                      => tasks'[t].file_id = RowOf(files, tasks[t].path).id]_vars

(* a second task of this run has upserted a.txt, whose row keeps id 1 and
   carries the new last_modified *)
C8_Witness ==
    \E t \in TaskIds :
        /\ tasks[t].kind = "event" /\ tasks[t].pc = "clear" /\ tasks[t].path = "a.txt"
        /\ tasks[t].file_id = 1
        /\ RowOf(files, "a.txt").id = 1
        /\ RowOf(files, "a.txt").last_modified = tasks[t].modified
        /\ tasks[t].modified > 3
        /\ RowOf(files, "a.txt").last_indexed = NULL

(* C9: the number of index tasks between permit acquisition and release,
   initial-scan and event tasks together, is at most 4. *)
C9_AtMostFourActive ==
    Cardinality({t \in TaskIds : HoldsPermit(t)}) <= 4

(* all four permits are held after a fifth task was admitted *)
C9_Witness ==
    /\ Cardinality({t \in TaskIds : HoldsPermit(t)}) = 4
    /\ permits = 0
    /\ Len(tasks) = 5

ScanHolders == {t \in TaskIds : tasks[t].kind = "scan" /\ HoldsPermit(t)}

ScanUnfinished == {t \in TaskIds : tasks[t].kind = "scan" /\ tasks[t].pc # "done"}

(* the walker takes a new entry only when it holds none, and it leaves the
   file it holds only by taking a free permit and handing it to the task it
   spawns for the file; no scan task is spawned in another way *)
WalkerStepTakesPermit ==
    /\ scanQueue' # scanQueue =>
          /\ walker = NoEntry
          /\ \E i \in 1..Len(scanQueue) :
                /\ scanQueue' = Without(scanQueue, i)
                /\ walker' = IF is_file(scanQueue[i]) THEN scanQueue[i] ELSE NoEntry
    /\ (walker # NoEntry /\ walker' # walker) =>
          /\ walker' = NoEntry
          /\ permits > 0
          /\ permits' = permits - 1
          /\ Len(tasks') = Len(tasks) + 1
          /\ tasks'[Len(tasks')].kind = "scan"
          /\ tasks'[Len(tasks')].path = walker
          /\ tasks'[Len(tasks')].pc = "check"
    /\ (Len(tasks') > Len(tasks) /\ tasks'[Len(tasks')].kind = "scan") =>
          walker # NoEntry /\ walker' = NoEntry

(* C10 as stated: the walker takes a permit before each spawn, so at most 4
   initial-scan tasks are spawned and unfinished, and the walker does not
   advance while all permits are held. *)
C10_UnfinishedScanTasksAtMostN ==
    [][WalkerStepTakesPermit /\ Cardinality(ScanUnfinished') <= 4]_vars

(* C10 amended: the walker takes a permit before each spawn, so at most 4
   initial-scan tasks have been spawned and not yet dropped their permit, and
   the walker does not advance while all permits are held. *)
C10_ScanHoldersAtMostN ==
    [][WalkerStepTakesPermit /\ Cardinality(ScanHolders') <= 4]_vars

(* the walker is stopped at a file while four scan tasks hold the permits *)
C10_Witness ==
    /\ phase = "scan"
    /\ walker # NoEntry
    /\ permits = 0
    /\ Cardinality(ScanHolders) = 4

----------------------------------------------------------------------------
(* the event tasks that wait for a permit *)
Waiting == {t \in TaskIds : tasks[t].kind = "event" /\ tasks[t].pc = "wait"}

(* the event loop takes a batch *)
DrainsBatch == pending # <<>> /\ pending' = <<>>

(* C11: the event loop never waits on the semaphore: a received batch can be
   drained whatever the number of free permits, draining it takes no permit
   and puts one more task per submitted path among those that wait for a
   permit, so that their number is not limited by the number of permits. *)
C11_EventLoopNeverWaits ==
    /\ []((phase = "loop" /\ pending # <<>>) => ENABLED EventLoop)
    /\ [][DrainsBatch =>
            /\ permits' = permits
            /\ Len(tasks') = Len(tasks) + Cardinality(Submitted(pending))
            /\ Waiting' = Waiting \cup (Len(tasks) + 1 .. Len(tasks'))]_vars

(* two batches of two files each were drained one after the other while the
   four permits were held, the second while three tasks waited; no permit
   has been dropped since, and the five tasks that wait now are more than
   there are permits *)
C11_Witness ==
    /\ phase = "loop"
    /\ permits = 0
    /\ Cardinality({t \in TaskIds : HoldsPermit(t)}) = N
    /\ \A t \in 1..Len(EarlierTasks) : tasks[t] = EarlierTasks[t]
    /\ pending = <<>>
    /\ budget.events <= MaxBatches - 2
    /\ Len(tasks) = Len(EarlierTasks) + 4
    /\ Waiting = Len(EarlierTasks)..Len(tasks)
    /\ Cardinality(Waiting) > N

----------------------------------------------------------------------------
(* C12: a task for a file whose chunking fails (a damaged PDF, a plugin that
   times out, exits with a failure status, writes non-UTF-8 output or has an
   empty argv) returns after the failed chunking and none of its steps
   changes the file rows, the chunk rows or the FTS rows. *)
C12_ChunkingFailureLeavesStore ==
    [][\A t \in TaskIds :
          (tasks[t].path \in BadFiles /\ tasks'[t] # tasks[t])
          => /\ files' = files /\ chunks' = chunks /\ fts' = fts
             /\ tasks[t].pc = "read" => tasks'[t].pc = "release"]_vars

(* a task has returned from the failed chunking of a file that was due for
   indexing; the file's row, chunk and FTS row are those of the earlier pass *)
C12_Witness ==
    \E t \in TaskIds :
        /\ tasks[t].path \in BadFiles
        /\ tasks[t].pc = "release"
        /\ needs_reindexing(files, tasks[t].path, tasks[t].modified)
        /\ RowOf(files, tasks[t].path).last_indexed = 2
        /\ StoredChunks(files, chunks, tasks[t].path) = TaskPass(chunk_text(ContentA))
        /\ fts = FtsOf(chunks)

----------------------------------------------------------------------------
(* the query vectors of the texts that can be embedded *)
QueryVectors == {<<10, 0>>, <<0, 10>>, <<6, 8>>}

Ids(results) == {results[k].id : k \in 1..Len(results)}

(* the ids a vector search for q returns when it may return up to 50 rows *)
VectorIds(q) ==
    Ids(search_chunks_enhanced(files, chunks, query_cache, q,
                               [DefaultOptions EXCEPT !.limit = cache_limit], now, 0).results)

(* the ids in the FTS list of a hybrid search for a text *)
FtsIds(text) ==
    LET rows == SortById(chunks)
    IN Ids(fts_results(files, chunks, fts, text, DefaultOptions,
                       [k \in 1..Len(rows) |-> rows[k].id]))

(* C13: when the embedding of a chunk fails, add_chunk still stores the chunk
   row, with a NULL embedding, and its FTS row, and the task goes on with the
   next chunk and marks the file indexed; in every state a chunk with a NULL
   embedding is in no vector search result, and it is in the FTS list of a
   query for its text as long as it has its FTS row. *)
C13_UnembeddedChunkIsFtsOnly ==
    /\ [][\A t \in TaskIds :
            /\ (/\ tasks[t].pc = "insert" /\ tasks'[t] # tasks[t] /\ budget' = budget
                /\ embed(tasks[t].chunks[tasks[t].i].content) = None)
               => /\ \E c \in chunks' \ chunks :
                        /\ c.file_id = tasks[t].file_id
                        /\ c.content = tasks[t].chunks[tasks[t].i].content
                        /\ c.embedding = None
                        /\ c.id = tasks'[t].chunk_id
                  /\ tasks'[t].pc = "insert_fts"
            /\ (/\ tasks[t].pc = "insert_fts" /\ tasks'[t] # tasks[t] /\ budget' = budget
                /\ embed(tasks[t].chunks[tasks[t].i].content) = None)
               => /\ \E c \in chunks' :
                        /\ c.id = tasks[t].chunk_id
                        /\ c.file_id = tasks[t].file_id
                        /\ c.content = tasks[t].chunks[tasks[t].i].content
                        /\ c.embedding = None
                        /\ [id |-> c.id, content |-> c.content] \in fts' \ fts
                  /\ ~tasks'[t].failed
                  /\ tasks'[t].i = tasks[t].i + 1
                  /\ tasks'[t].pc = IF tasks[t].i = Len(tasks[t].chunks) THEN "mark" ELSE "insert"
            /\ (tasks[t].pc = "mark" /\ tasks'[t] # tasks[t] /\ budget' = budget)
               => RowOf(files', tasks[t].path).last_indexed = now]_vars
    /\ [](\A c \in chunks :
            c.embedding = None =>
               /\ \A q \in QueryVectors : c.id \notin VectorIds(q)
               /\ ([id |-> c.id, content |-> c.content] \in fts
                     /\ \E f \in files : f.id = c.file_id)
                  => c.id \in FtsIds(c.content))

(* b.txt is marked indexed with its two chunks; the first has no embedding,
   is missing from every vector search and is found through the FTS list *)
C13_Witness ==
    /\ HasRow(files, "b.txt")
    /\ RowOf(files, "b.txt").last_indexed # NULL
    /\ StoredChunks(files, chunks, "b.txt") = PassOutput(ContentXC)
    /\ StoredChunks(files, chunks, "b.txt")[1].embedding = None
    /\ StoredChunks(files, chunks, "b.txt")[2].embedding # None
    /\ \E c \in chunks :
          /\ c.content = <<"x">>
          /\ c.id \in FtsIds(<<"x">>)
          /\ \A q \in QueryVectors : c.id \notin VectorIds(q)
    /\ \E c \in chunks : c.content = <<"c">> /\ c.id \in VectorIds(<<6, 8>>)

----------------------------------------------------------------------------
(* C14: a query whose text cannot be embedded is answered, on the HTTP
   surface as on the tool-protocol surface, with an empty result set and
   without a failure. *)
C14_QueryEmbeddingFailureIsEmpty ==
    (response.surface # "none" /\ embed(response.request.query) = None)
        => response.failure = 0 /\ response.results = <<>>

----------------------------------------------------------------------------
(* the paths that the rule *.log names *)
RuleNamed == {p \in Paths : extension(p) = "log"}

(* C15: draining a batch spawns at most one task per distinct path, each for
   a path of the batch that exists, is not a directory, is not the ignore
   file .gitignore and is matched by no ignore rule. *)
C15_BatchSubmitsOncePerPath ==
    [][DrainsBatch =>
          LET new == (Len(tasks) + 1) .. Len(tasks')
          IN /\ \A i, j \in new : tasks'[i].path = tasks'[j].path => i = j
             /\ \A i \in new :
                   /\ tasks'[i].kind = "event"
                   /\ tasks'[i].path \in {pending[k] : k \in 1..Len(pending)}
                   /\ disk[tasks'[i].path].exists
                   /\ ~disk[tasks'[i].path].dir
                   /\ tasks'[i].path # ".gitignore"
                   /\ disk[".gitignore"].exists => tasks'[i].path \notin RuleNamed]_vars

(* a batch with two events for c.txt and events for the directory, the
   ignore file, an ignored file and a deleted file was drained: c.txt got
   one task, the others none *)
C15_Witness ==
    /\ budget.events = MaxEvents - 1
    /\ pending = <<>>
    /\ disk["sub"].dir /\ disk[".gitignore"].exists /\ disk["build.log"].exists
    /\ ~disk["gone.txt"].exists
    /\ Cardinality({t \in TaskIds : tasks[t].kind = "event" /\ tasks[t].path = "c.txt"}) = 1
    /\ \A t \in TaskIds : tasks[t].kind = "event" => tasks[t].path = "c.txt"

----------------------------------------------------------------------------
(* the (start, end, content) tuples of a chunk set, in order *)
Tuples(stored) ==
    [k \in 1..Len(stored) |->
        [start |-> stored[k].start, end |-> stored[k].end, content |-> stored[k].content]]

(* the step is the return of the call of index_file that log entry g records *)
PassEnds(g) == tasks[g.t].pc # "release" /\ tasks'[g.t].pc = "release"

(* since the call started, no file was saved and no file row was deleted *)
Undisturbed(g) == budget' = g.budget /\ Deleted' = g.deleted

(* C16: a pass over a file that was already indexed at the same modification
   time and with the same content leaves the file's chunk set with the same
   number of chunks and the same (start, end, content) tuples in the same
   order, whether the pass returns early or rewrites the chunks. *)
C16_ReindexIdempotent ==
    [][\A k \in 1..Len(output) :
          (output[k].asis /\ PassEnds(output[k]) /\ Undisturbed(output[k]))
          => Tuples(StoredChunks(files', chunks', output[k].path))
                = Tuples(output[k].prior)]_vars

(* one call returned early and the last call rewrote the chunks, each over a
   file that was indexed as it is when the call started, and nothing else
   happened since *)
C16_Witness ==
    /\ budget.mods = MaxMods /\ Deleted = 0
    /\ \E k \in 1..Len(output) :
          /\ output[k].asis
          /\ output[k].prior # <<>>
          /\ tasks[output[k].t].pc = "release"
          /\ tasks[output[k].t].file_id = 0
    /\ LET g == output[Len(output)]
       IN /\ g.asis
          /\ g.prior # <<>>
          /\ tasks[g.t].pc = "release"
          /\ tasks[g.t].file_id # 0
          /\ tasks[g.t].i = Len(tasks[g.t].chunks) + 1
          /\ ~tasks[g.t].failed
          /\ RowOf(files, g.path).last_indexed # NULL
          /\ Tuples(StoredChunks(files, chunks, g.path)) = Tuples(g.prior)

----------------------------------------------------------------------------
(* the step deletes the row of file id *)
Deletes(id) ==
    /\ Len(tasks') = Len(tasks) + 1
    /\ tasks'[Len(tasks')].kind = "delete"
    /\ tasks'[Len(tasks')].file_id = id

(* C17: deleting a file row removes every chunk row of the file and the FTS
   row of each of those chunks, and leaves the chunk rows and FTS rows of the
   other files as they were. *)
C17_FileDeleteCascades ==
    [][\A id \in {f.id : f \in files} :
          Deletes(id) =>
             LET own == {c \in chunks : c.file_id = id}
             IN /\ chunks' = chunks \ own
                /\ fts' = {r \in fts : r.id \notin {c.id : c \in own}}]_vars

(* C18: a chunk row that a step inserts has an id greater than every chunk id
   assigned before, so no id is ever used for a second chunk. *)
C18_ChunkIdsNeverReused ==
    [][\A c \in chunks' \ chunks : c.id > issued]_vars

----------------------------------------------------------------------------
(* the SearchOptions both surfaces build from a request *)
OptionsOf(req) ==
    [limit |-> IF req.limit = NULL THEN HandlerLimit ELSE req.limit,
     start_time |-> req.start_time, end_time |-> req.end_time,
     file_types |-> req.file_types, paths |-> req.paths,
     min_score |-> req.min_score, recency_weight |-> NULL]

(* the request has a text that the embedder accepts *)
Embeddable(req) == embed(req.query) # None

(* the cache key of a request's embedding *)
KeyOf(req) == VecBytes(Unwrap(embed(req.query)))

(* what a search computes from the rows of the Store alone *)
Uncached(req) ==
    Truncate(ScoredChunks(files, chunks, Unwrap(embed(req.query)), OptionsOf(req), now),
             OptionsOf(req).limit)

(* C19: a vector search with start_time, end_time, file_types or paths set
   is answered from the rows of the Store and leaves the cache, entries and
   order, as it was; a search with none of them set is answered from the
   cache exactly when the cache holds its key, and leaves its key as the
   most recently used one.  A search whose read of the Store fails returns
   nothing from the cache and leaves the cache as it was, filtered or not. *)
C19_CacheOnlyForUnfilteredSearch ==
    [][Embeddable(response'.request) =>
          LET before == IF response'.surface = "mcp" THEN mcp_cache ELSE query_cache
              after == IF response'.surface = "mcp" THEN mcp_cache' ELSE query_cache'
          IN /\ IF FilterCount(response'.request) > 0
                THEN /\ after = before
                     /\ ~response'.hit
                     /\ ~response'.search_failed
                            => response'.found = Uncached(response'.request)
                ELSE /\ response'.hit <=> CacheIndex(before, KeyOf(response'.request)) > 0
                     /\ ~response'.search_failed
                            => after # <<>> /\ after[1].key = KeyOf(response'.request)
             /\ response'.search_failed
                    => after = before /\ ~response'.hit /\ response'.found = <<>>]_vars

(* after an earlier search failed on the Store, a search for a.txt only was
   answered from the Store although the cache holds an entry, with another
   list, for the query's embedding *)
C19_Witness ==
    /\ budget.faults < MaxFaults
    /\ response.surface = "http"
    /\ Embeddable(response.request)
    /\ response.request.paths = Some({"a.txt"})
    /\ ~response.hit
    /\ response.found # <<>>
    /\ CacheIndex(query_cache, KeyOf(response.request)) > 0
    /\ response.found #
          Truncate(query_cache[CacheIndex(query_cache, KeyOf(response.request))].value,
                   OptionsOf(response.request).limit)

(* the scored list of an embedding: every row with an embedding of the
   query's dimension, scored, sorted and capped at 50 *)
FullScoredList(req) ==
    Truncate(ScoredChunks(files, chunks, Unwrap(embed(req.query)),
                          [DefaultOptions EXCEPT !.recency_weight = OptionsOf(req).recency_weight],
                          now),
             cache_limit)

(* C20: an unfiltered vector search that misses the cache and reads the
   Store without an error stores, under the bytes of the query embedding,
   the full scored list of that embedding, sorted and capped at 50; one that
   hits returns the cached list with min_score applied and then cut to
   limit. *)
C20_MissStoresFullList ==
    [][(/\ Embeddable(response'.request)
        /\ FilterCount(response'.request) = 0
        /\ ~response'.search_failed) =>
          LET before == IF response'.surface = "mcp" THEN mcp_cache ELSE query_cache
              after == IF response'.surface = "mcp" THEN mcp_cache' ELSE query_cache'
          IN IF response'.hit
             THEN LET cached == before[CacheIndex(before, KeyOf(response'.request))].value
                      min == response'.request.min_score
                  IN response'.found =
                        Truncate(SelectSeq(cached,
                                           LAMBDA r : min # NULL => r.score >= MinScoreUnits(min)),
                                 OptionsOf(response'.request).limit)
             ELSE after[1] = [key |-> KeyOf(response'.request),
                              value |-> FullScoredList(response'.request)]]_vars

----------------------------------------------------------------------------
(* the keys of the cache *)
CacheKeys(cache) == {cache[i].key : i \in 1..Len(cache)}

(* the key in the cache whose last search lies furthest back *)
LeastRecentlyUsed(cache, searched) ==
    LET pos(key) == CHOOSE j \in 1..Len(searched) : VecBytes(searched[j].query_embedding) = key
    IN CHOOSE key \in CacheKeys(cache) : \A other \in CacheKeys(cache) : pos(key) <= pos(other)

(* C21: the query cache never holds more than 100 entries, and a search
   that inserts a new key into a cache of 100 entries removes the entry whose
   last search, hit or insert, lies furthest back and no other entry. *)
C21_CacheEvictsLeastRecentlyUsed ==
    /\ [](Len(query_cache) <= CacheCapacity /\ Cardinality(CacheKeys(query_cache)) = Len(query_cache))
    /\ [][IF CacheKeys(query_cache') \subseteq CacheKeys(query_cache)
          THEN CacheKeys(query_cache') = CacheKeys(query_cache)
          ELSE CacheKeys(query_cache) \ CacheKeys(query_cache') =
                  IF Len(query_cache) = CacheCapacity
                  THEN {LeastRecentlyUsed(query_cache, tasks)}
                  ELSE {}]_vars

(* the cache is full, the first embedding was hit after later ones were
   inserted and is still cached, while the second one was evicted *)
C21_Witness ==
    /\ Len(query_cache) = CacheCapacity
    /\ VecBytes(HotVector) \in CacheKeys(query_cache)
    /\ VecBytes(QueryVector(2)) \notin CacheKeys(query_cache)
    /\ response.hit

----------------------------------------------------------------------------
(* X stands before Y in a result list *)
Before(list, x, y) ==
    /\ PositionOf(list, x) > 0
    /\ PositionOf(list, y) > 0
    /\ PositionOf(list, x) < PositionOf(list, y)

(* C22: in a hybrid search, a chunk X that stands before a chunk Y in both
   the vector list and the FTS list stands before Y in the hybrid result
   whenever Y is in the result. *)
C22_RrfMonotone ==
    output # NoCall =>
        \A x \in {c.id : c \in chunks}, y \in {c.id : c \in chunks} :
            (/\ Before(output.vector_results, x, y)
             /\ Before(output.fts_results, x, y)
             /\ PositionOf(output.results, y) > 0)
            => Before(output.results, x, y)

(* X leads Y in both lists, the HashMap yielded Y first, and both are in
   the result *)
C22_Witness ==
    /\ output # NoCall
    /\ \E x \in {c.id : c \in chunks}, y \in {c.id : c \in chunks} :
          /\ Before(output.vector_results, x, y)
          /\ Before(output.fts_results, x, y)
          /\ Before(output.results, x, y)
          /\ \E i, j \in 1..Len(input.order) :
                i < j /\ input.order[i] = y /\ input.order[j] = x

----------------------------------------------------------------------------
(* the cosine similarity of a stored chunk with the query of the last search *)
CosineOf(id) ==
    Dot(DecodeBlob(Unwrap((CHOOSE c \in chunks : c.id = id).embedding)), input.query_embedding)

(* the recency weight in force in the last search *)
WeightOf(o) == IF o.recency_weight = NULL THEN DefaultRecencyWeight ELSE o.recency_weight

(* C23: in a vector search with recency_weight > 0, of two chunks with equal
   cosine similarity the one whose file has the larger last_modified stands
   first, whatever the two modification times are; of a file modified now
   and one modified 7 days ago the recent one has the strictly higher score. *)
C23_RecentFileRanksFirst ==
    (output # NoCall /\ WeightOf(input.options) > 0) =>
        \A i, j \in 1..Len(output.results) :
            LET ri == output.results[i]
                rj == output.results[j]
            IN (CosineOf(ri.id) = CosineOf(rj.id) /\ ri.last_modified > rj.last_modified)
               => /\ i < j
                  /\ (ri.last_modified = now /\ rj.last_modified = now - 7 * Day)
                        => ri.score > rj.score

----------------------------------------------------------------------------
(* the limit in force in a search *)
LimitOf(o) == IF o.limit = NULL THEN DefaultLimit ELSE o.limit

(* C24: a vector search returns at most limit results, 10 when limit is
   unset, in the order of non-increasing final score, and results of equal
   final score stand in the order in which their rows were read, which is
   the order of their ids. *)
C24_SortedStableTruncated ==
    output # NoCall =>
        /\ Len(output.results) <= LimitOf(input.options)
        /\ \A i, j \in 1..Len(output.results) :
              i < j => /\ output.results[i].score >= output.results[j].score
                       /\ output.results[i].score = output.results[j].score
                             => output.results[i].id < output.results[j].id

(* twelve rows qualify, limit is unset and ten results come back, two of
   them with equal scores *)
C24_Witness ==
    /\ output # NoCall
    /\ ~output.hit
    /\ input.options.limit = NULL
    /\ Cardinality(chunks) = DefaultLimit + 2
    /\ input.options.min_score = NULL
    /\ Len(output.results) = DefaultLimit
    /\ output.results[1].score = output.results[2].score

(* a result satisfies the filters of the options *)
SatisfiesFilters(r, o) ==
    /\ o.start_time # NULL => r.last_modified >= o.start_time
    /\ o.end_time # NULL => r.last_modified <= o.end_time
    /\ o.file_types # None =>
          \E t \in Unwrap(o.file_types) : to_lowercase(t) = to_lowercase(extension(r.file_path))
    /\ o.paths # None => \E frag \in Unwrap(o.paths) : contains(r.file_path, frag)
    /\ o.min_score # NULL => CosineOf(r.id) >= MinScoreUnits(o.min_score)

(* C25: every result of a vector search satisfies all filters of the
   caller: the time window, the file types compared without regard to case,
   the path fragments, and min_score against the cosine similarity, on a
   cache miss and on a cache hit. *)
C25_ResultsSatisfyFilters ==
    output # NoCall =>
        \A i \in 1..Len(output.results) : SatisfiesFilters(output.results[i], input.options)

(* C26: a vector search over a Store with embeddings whose decoded length is
   not the length of the query vector, among them blobs whose byte length is
   no multiple of 4, returns none of those rows and every row of the query's
   dimension that passes the filters, up to limit. *)
C26_MismatchedDimensionSkipped ==
    (output # NoCall /\ ~output.hit) =>
        LET fit == {c \in chunks :
                     /\ c.embedding # None
                     /\ Len(DecodeBlob(Unwrap(c.embedding))) = Len(input.query_embedding)
                     /\ \E f \in files :
                           /\ f.id = c.file_id
                           /\ SatisfiesFilters([id |-> c.id, file_path |-> f.path,
                                                 last_modified |-> f.last_modified],
                                                input.options)}
        IN /\ \A i \in 1..Len(output.results) : output.results[i].id \in {c.id : c \in fit}
           /\ Len(output.results) = IF Cardinality(fit) > LimitOf(input.options)
                                    THEN LimitOf(input.options) ELSE Cardinality(fit)

(* the Store holds blobs of 4, 6 and 12 bytes and an empty one, and the
   search for a vector of two values returned the two rows that decode to
   two values *)
C26_Witness ==
    /\ output # NoCall
    /\ ~output.hit
    /\ \E c \in chunks : c.embedding # None /\ Len(Unwrap(c.embedding)) % 4 # 0
                          /\ Len(DecodeBlob(Unwrap(c.embedding))) # Len(input.query_embedding)
    /\ \E c \in chunks : c.embedding # None /\ Len(DecodeBlob(Unwrap(c.embedding))) > 2
    /\ \E c \in chunks : c.embedding = Some(<<>>)
    /\ Len(output.results) = 2

----------------------------------------------------------------------------
(* s[from+1 .. to], the bytes of s from offset from up to offset to *)
Slice(s, from, to) == SubSeq(s, from + 1, to)

(* the bytes of s from offset from up to offset to are whole blank-line
   separators *)
OnlySeparators(s, from, to) ==
    /\ from <= to
    /\ (to - from) % 2 = 0
    /\ \A i \in (from + 1)..to : s[i] = NL

HasBlankLine(s) == \E i \in 1..(Len(s) - 1) : s[i] = NL /\ s[i + 1] = NL

(* C27: the text chunker returns, in order, exactly the non-empty pieces
   between the blank-line separators of its input: every chunk is a non-empty
   slice input[start..end] without a blank line inside, what lies before the
   first chunk, between two chunks and after the last one is made of whole
   separators only (at least one between two chunks), a piece is cut at the
   first separator that ends it, and the empty input gives no chunks. *)
C27_TextChunksArePieces ==
    (output # NoCall /\ input.ext = "txt") =>
        LET content == input.content
            cs == output.chunks
            n == Len(cs)
        IN /\ \A k \in 1..n :
                 /\ 0 <= cs[k].start /\ cs[k].start < cs[k].end /\ cs[k].end <= Len(content)
                 /\ cs[k].content = Slice(content, cs[k].start, cs[k].end)
                 /\ ~HasBlankLine(cs[k].content)
                 /\ cs[k].end < Len(content) => content[cs[k].end] # NL
           /\ \A k \in 1..(n - 1) :
                 /\ cs[k].end < cs[k + 1].start
                 /\ OnlySeparators(content, cs[k].end, cs[k + 1].start)
           /\ n > 0 => /\ OnlySeparators(content, 0, cs[1].start)
                       /\ OnlySeparators(content, cs[n].end, Len(content))
           /\ n = 0 => OnlySeparators(content, 0, Len(content))
           /\ content = <<>> => cs = <<>>

(* a text whose second chunk follows an empty piece has been chunked *)
C27_Witness ==
    /\ output # NoCall
    /\ input.ext = "txt"
    /\ Len(output.chunks) >= 2
    /\ output.chunks[2].start - output.chunks[1].end = 4
    /\ output.chunks[2].content = Slice(input.content, output.chunks[2].start, output.chunks[2].end)

----------------------------------------------------------------------------
(* C28: every chunk returned for a text under the Markdown or the text
   strategy has start <= end <= the length of the text and its content is
   the slice content[start..end]. *)
C28_OffsetsSliceTheContent ==
    output # NoCall =>
        \A k \in 1..Len(output.chunks) :
            LET c == output.chunks[k]
            IN /\ c.start <= c.end
               /\ c.end <= Len(input.content)
               /\ c.content = Slice(input.content, c.start, c.end)

----------------------------------------------------------------------------
(* the heading lines of a text, in order *)
HeadingLines(content) == SelectSeq(Lines(content), LAMBDA l : l # <<>> /\ Head(l) = "#")

RECURSIVE StackAfter(_, _)
(* the heading stack after the first k heading lines of hs: a heading
   deeper than the stack is pushed, a heading of level L at or above the
   depth of the stack cuts the stack to L - 1 entries and is pushed *)
StackAfter(hs, k) ==
    IF k = 0 THEN <<>>
    ELSE LET before == StackAfter(hs, k - 1)
             L == HeadingLevel(hs[k])
             kept == IF L > Len(before) THEN before
                     ELSE [i \in 1..(L - 1) |-> before[i]]
         IN kept \o <<HeadingTitle(hs[k])>>

(* the chunks that begin with a heading line *)
HeadingChunks(cs) == SelectSeq(cs, LAMBDA c : Head(c.content) = "#")

(* C29: the Markdown chunker returns one chunk for each heading line, which
   begins with that line, and at most one chunk before them, which has no
   metadata; the headers of the chunk of the k-th heading are the heading
   stack after that heading. *)
C29_MarkdownHeadingStack ==
    (output # NoCall /\ input.ext = "md") =>
        LET hs == HeadingLines(input.content)
            cs == output.chunks
            hc == HeadingChunks(cs)
        IN /\ Len(hc) = Len(hs)
           /\ Len(cs) \in {Len(hs), Len(hs) + 1}
           /\ \A k \in 1..Len(cs) :
                 Head(cs[k].content) # "#" => k = 1 /\ cs[k].metadata = None
           /\ \A k \in 1..Len(hc) :
                 /\ SubSeq(hc[k].content, 1, Len(hs[k]) + 1) = Append(hs[k], NL)
                 /\ \A i \in (Len(hs[k]) + 2)..Len(hc[k].content) :
                        hc[k].content[i] = NL => i = Len(hc[k].content) \/ hc[k].content[i + 1] # "#"
                 /\ hc[k].metadata = Some([headers |-> StackAfter(hs, k)])

(* a level-1 section followed by a level-2 section was chunked into two
   chunks, the second under both headings *)
C29_Witness ==
    /\ output # NoCall
    /\ input.ext = "md"
    /\ input.content = <<"#", " ", "a", NL, "t", NL, NL, "#", "#", " ", "b", NL, "t", NL>>
    /\ Len(output.chunks) = 2
    /\ output.chunks[1].metadata = Some([headers |-> <<<<"a">>>>])
    /\ output.chunks[2].metadata = Some([headers |-> <<<<"a">>, <<"b">>>>])

----------------------------------------------------------------------------
(* path d is a proper ancestor of path p *)
IsBelow(p, d) == Len(d) < Len(p) /\ SubSeq(p, 1, Len(d)) = d

(* the rules the checked root was built from *)
RootRules == IgnoreChecker_new(input.contextignore, input.gitignore)

(* C30: under one set of rules, when a directory D is ignored every path
   below it is ignored as a file; a path is ignored when the rules ignore
   the path itself or ignore one of its ancestors as a directory, and is not
   ignored when no rule matches it and none of its ancestors is ignored. *)
C30_IgnoreTransitive ==
    /\ \A d \in output, c \in output :
          (d.is_dir /\ d.ignored /\ ~c.is_dir /\ IsBelow(c.path, d.path)) => c.ignored
    /\ \A c \in output :
          c.ignored <=>
              \/ matched(RootRules, c.path, c.is_dir) = "Ignore"
              \/ \E k \in 1..(Len(c.path) - 1) :
                     matched(RootRules, SubSeq(c.path, 1, k), TRUE) = "Ignore"

----------------------------------------------------------------------------
(* the process of the call ran to its end within the timeout *)
FinishedInTime == input.process.spawned /\ input.process.seconds <= PluginTimeoutSecs

(* the four errors of the claim and the returned text *)
OutcomeAsListed ==
    IF input.cmd = <<>> THEN output.kind = "Empty"
    ELSE IF input.process.spawned /\ input.process.seconds > PluginTimeoutSecs
    THEN output.kind = "Timeout"
    ELSE IF FinishedInTime /\ input.process.status # 0 THEN output.kind = "Exit"
    ELSE IF FinishedInTime /\ ~Utf8Valid(input.process.stdout) THEN output.kind = "Binary"
    ELSE IF FinishedInTime THEN output = [kind |-> "Ok", content |-> input.process.stdout]
    ELSE output.kind = "Execute"

(* C31 as stated: every call ends in one of PluginEmpty, PluginTimeout,
   PluginExit, PluginBinary or the stdout text. *)
C31_OneOfFiveOutcomes ==
    output # NoCall =>
        /\ output.kind \in {"Empty", "Timeout", "Exit", "Binary", "Ok"}
        /\ OutcomeAsListed

(* C31 amended: every call ends in exactly one outcome, which is the error
   for an empty argv, else the error for a process that could not be
   started, else the timeout error for a process still running after 30
   seconds, else the exit error for a non-zero status, else the UTF-8 error
   for stdout that is not valid UTF-8, else the stdout text. *)
C31_OneOfSixOutcomes ==
    output # NoCall =>
        /\ output.kind \in {"Empty", "Timeout", "Exit", "Binary", "Ok", "Execute"}
        /\ OutcomeAsListed
        /\ output.kind = "Execute" <=> (input.cmd # <<>> /\ ~input.process.spawned)
        /\ output.kind # "Ok" => output.content = <<>>

(* a process that ran 31 seconds was cut off, whatever its status and output *)
C31_Witness ==
    /\ output # NoCall
    /\ input.cmd # <<>>
    /\ input.process.spawned /\ input.process.seconds = PluginTimeoutSecs + 1
    /\ input.process.status = 0 /\ input.process.stdout = <<"a">>
    /\ output.kind = "Timeout"

----------------------------------------------------------------------------
(* delivery k of the sink names path p for a change in the given window *)
Names(k, p, window) ==
    \E i \in 1..Len(output[k]) : output[k][i].path = p /\ output[k][i].window = window

(* C32: the raw events for one path inside one debounce window reach the
   sink in one delivery, which names the path once. *)
C32_DeliveriesCoalesced ==
    \A k \in 1..Len(output), p \in {"a.txt", "b.txt"}, window \in 0..MaxWindows :
        Names(k, p, window) =>
            /\ \A j \in 1..Len(output) : Names(j, p, window) => j = k
            /\ Cardinality({i \in 1..Len(output[k]) : output[k][i].path = p}) = 1

----------------------------------------------------------------------------
(* every spawned task has ended, nothing is left to scan or to drain *)
NoTaskRunning ==
    /\ scanQueue = <<>>
    /\ walker = NoEntry
    /\ pending = <<>>
    /\ \A t \in TaskIds : tasks[t].pc = "done"

(* C33: no step of the scan, the event loop or an index task removes a file
   row, and once the tasks have ended a file that was indexed with chunks
   and has left the disk still has its row, chunk rows and FTS rows for
   search to return. *)
C33_DeletedFilesKeepRows ==
    /\ [](NoTaskRunning =>
            \A p \in {"a.txt", "c.txt"} :
                ~disk[p].exists =>
                    /\ HasRow(files, p)
                    /\ StoredChunks(files, chunks, p) # <<>>
                    /\ \A c \in chunks : c.file_id = RowOf(files, p).id =>
                                            \E r \in fts : r.id = c.id)
    /\ [][\A f \in files : \E g \in files' : g.id = f.id /\ g.path = f.path]_vars

----------------------------------------------------------------------------
(* task t runs a statement of its clear_chunks call in this step *)
ClearsChunks(t) ==
    tasks[t].pc \in {"clear", "clear_rows"} /\ tasks'[t].pc # tasks[t].pc

(* task t returns from its clear_chunks call in this step, both statements
   having succeeded *)
ClearSucceeds(t) ==
    tasks[t].pc = "clear_rows" /\ tasks'[t].pc # "clear_rows" /\ budget'.faults = budget.faults

(* C34: a clear_chunks(file_id) call leaves the file rows, the chunk rows of
   the other files and the FTS rows of the other files' chunks as they were;
   it deletes chunk rows of the file only when the FTS rows of the file's
   chunks are deleted, and when it succeeds the file has no chunk row and no
   FTS row left. *)
C34_ClearChunksFrame ==
    [][\A t \in TaskIds :
          ClearsChunks(t) =>
             LET own == {c \in chunks : c.file_id = tasks[t].file_id}
                 ids == {c.id : c \in own}
             IN /\ files' = files
                /\ chunks' \ own = chunks \ own
                /\ {r \in fts' : r.id \notin ids} = {r \in fts : r.id \notin ids}
                /\ chunks' \subseteq chunks /\ fts' \subseteq fts
                /\ ~(own \subseteq chunks') => ~\E r \in fts' : r.id \in ids
                /\ chunks' # chunks => tasks[t].pc = "clear_rows"
                /\ tasks'[t].pc = "clear_rows" => ~\E r \in fts' : r.id \in ids
                /\ ClearSucceeds(t) =>
                      /\ ~\E c \in chunks' : c.file_id = tasks[t].file_id
                      /\ ~\E r \in fts' : r.id \in ids]_vars

(* a task has cleared the chunk of its file; the chunk of c.txt and its FTS
   row are still there *)
C34_Witness ==
    \E t \in TaskIds :
        /\ tasks[t].pc = "insert" /\ tasks[t].i = 1
        /\ tasks[t].prior # <<>> /\ ~tasks[t].failed
        /\ ~\E c \in chunks : c.file_id = tasks[t].file_id
        /\ \E c \in chunks : /\ c.file_id = RowOf(files, "c.txt").id
                              /\ [id |-> c.id, content |-> c.content] \in fts

----------------------------------------------------------------------------
(* what a list adds to the score of a chunk: the f32 1/(60 + rank) for its
   1-based rank in the list, nothing when it is not in the list *)
Contribution(list, id) ==
    IF \E i \in 1..Len(list) : list[i].id = id
    THEN F32Div(F32One, F32Int(60 + (CHOOSE i \in 1..Len(list) : list[i].id = id)))
    ELSE 0

ListIds(list) == {list[i].id : i \in 1..Len(list)}

(* a result without its score *)
Unscored(r) == [r EXCEPT !.score = 0]

(* C35: the two lists of a hybrid search have at most 50 entries; the result
   holds chunk ids of the two lists, each once, every one with the sum of
   what the two lists add for it, in the order of non-increasing score; it
   holds the limit best of them (10 when the limit is unset), or all when
   they are fewer; a chunk of the vector list is returned as that list has
   it, any other chunk as the FTS list has it. *)
C35_HybridFusion ==
    output # NoCall =>
        LET v == output.vector_results
            f == output.fts_results
            res == output.results
            all == ListIds(v) \cup ListIds(f)
            wanted == IF Cardinality(all) < LimitOf(input.options)
                      THEN Cardinality(all) ELSE LimitOf(input.options)
        IN /\ Len(v) <= 50 /\ Len(f) <= 50
           /\ ListIds(res) \subseteq all
           /\ \A i, j \in 1..Len(res) : res[i].id = res[j].id => i = j
           /\ Len(res) = wanted
           /\ \A k \in 1..Len(res) :
                 /\ res[k].score = F32Add(Contribution(v, res[k].id), Contribution(f, res[k].id))
                 /\ k < Len(res) => res[k].score >= res[k + 1].score
                 /\ \A id \in all \ ListIds(res) :
                        res[k].score >= F32Add(Contribution(v, id), Contribution(f, id))
                 /\ \A i \in 1..Len(v) : v[i].id = res[k].id => Unscored(res[k]) = Unscored(v[i])
                 /\ res[k].id \notin ListIds(v) =>
                        \E i \in 1..Len(f) : Unscored(res[k]) = Unscored(f[i])

(* a search with limit 51 over 52 matching chunks took 50 into each list and
   returned 51 of the 52 chunks of their union; one result is in the FTS
   list only and is returned as that list has it, one is in the vector list
   only, and the first result differs between the vector list, which was
   read or cached before the file row was written, and the FTS list, which
   was read after it *)
C35_Witness ==
    /\ output # NoCall
    /\ Len(output.vector_results) = 50 /\ Len(output.fts_results) = 50
    /\ Cardinality(ListIds(output.vector_results) \cup ListIds(output.fts_results)) = 52
    /\ LimitOf(input.options) = 51
    /\ Len(output.results) = 51
    /\ \E k \in 1..51, j \in 1..50 :
          /\ output.results[k].id \notin ListIds(output.vector_results)
          /\ output.fts_results[j].id = output.results[k].id
          /\ output.results[k].last_modified = output.fts_results[j].last_modified
          /\ output.results[k].score = RrfTerm(j)
    /\ \E k \in 1..51 : output.results[k].id \notin ListIds(output.fts_results)
    /\ \E i \in 1..50, j \in 1..50 :
          /\ output.vector_results[i].id = output.results[1].id
          /\ output.fts_results[j].id = output.results[1].id
          /\ output.vector_results[i].last_modified # output.fts_results[j].last_modified
          /\ output.results[1].last_modified = output.vector_results[i].last_modified

-----------------------------------------------------------------------------
(* The daemon under the scheduling of the tokio runtime: every spawned task
   is polled until it ends, and the semaphore hands a free permit to a
   waiting acquire *)

TaskFairness ==
    /\ WF_vars(\E t \in TaskIds : AcquirePermit(t))
    /\ WF_vars(\E t \in TaskIds : NeedsReindex(t))
    /\ WF_vars(\E t \in TaskIds : ReadAndChunk(t))
    /\ WF_vars(\E t \in TaskIds : StatAgain(t))
    /\ WF_vars(\E t \in TaskIds : Upsert(t))
    /\ WF_vars(\E t \in TaskIds : ClearChunks(t))
    /\ WF_vars(\E t \in TaskIds : AddChunk(t))
    /\ WF_vars(\E t \in TaskIds : MarkIndexed(t))
    /\ WF_vars(\E t \in TaskIds : Release(t))
    /\ WF_vars(\E t \in TaskIds : ProgressInc(t))

(* a.txt is due and its index task meets Store errors *)
InitFault ==
    /\ disk = DiskOf({"a.txt"})
    /\ files = FilesOf(<<"a.txt", "c.txt">>)
    /\ chunks = ChunksOf(<<"a.txt", "c.txt">>)
    /\ budget = [mods |-> 0, faults |-> MaxFaults, searches |-> 0, events |-> MaxEvents]
    /\ InitCommon

(* the scan, the event loop and the index tasks *)
NextFair ==
    \/ \E t \in TaskIds : AcquirePermit(t)
    \/ \E t \in TaskIds : NeedsReindex(t)
    \/ \E t \in TaskIds : ReadAndChunk(t)
    \/ \E t \in TaskIds : StatAgain(t)
    \/ \E t \in TaskIds : Upsert(t)
    \/ \E t \in TaskIds : ClearChunks(t)
    \/ \E t \in TaskIds : AddChunk(t)
    \/ \E t \in TaskIds : MarkIndexed(t)
    \/ \E t \in TaskIds : Release(t)
    \/ \E t \in TaskIds : ProgressInc(t)
    \/ WalkerNext
    \/ ScanSpawn
    \/ StartWatcher
    \/ EventLoop
    \/ WatcherBatch(Batch)

SpecFair == (InitFault \/ InitBusy \/ InitBad) /\ [][NextFair]_vars /\ TaskFairness

(* the tasks that own a permit *)
PermitHolders == {t \in TaskIds : HoldsPermit(t)}

(* every submitted task has ended *)
AllTasksEnded == \A t \in TaskIds : tasks[t].pc = "done"

(* C36: a task owns a permit from before index_file starts until it has
   ended, on every exit path, so the free permits and the tasks inside
   index_file always add up to N; all N permits are free whenever no task
   is running; and under fair scheduling every submitted task ends. *)
C36_PermitsReturned ==
    /\ [](permits + Cardinality(PermitHolders) = N)
    /\ [](AllTasksEnded => permits = N)
    /\ <>[]AllTasksEnded

(* more tasks than there are permits were submitted, so some waited for a
   permit; all of them have ended and all permits are free again *)
C36_Witness ==
    /\ AllTasksEnded
    /\ Len(tasks) > N
    /\ permits = N
    /\ scanQueue = <<>>
    /\ walker = NoEntry

-----------------------------------------------------------------------------
(* The daemon with a file that is saved while it is being indexed *)

InitOverlap ==
    /\ disk = DiskOf({"a.txt"})
    /\ files = FilesOf(<<"a.txt", "c.txt">>)
    /\ chunks = ChunksOf(<<"a.txt", "c.txt">>)
    /\ budget = [mods |-> MaxMods, faults |-> 0, searches |-> 0, events |-> 0]
    /\ InitCommon

(* a task for p has read the file and has not yet called mark_indexed *)
BetweenReadAndMark(p) ==
    \E t \in TaskIds :
        /\ tasks[t].path = p
        /\ tasks[t].pc \in {"stat", "upsert", "clear", "clear_rows", "insert", "insert_fts",
                            "mark"}

(* an editor saves p while a task for it is past the read, under the started
   watcher, so that the event reaches the event loop *)
ModifyDuringIndex(p, d) ==
    /\ phase = "loop"
    /\ BetweenReadAndMark(p)
    /\ Modify(p, d)

NextOverlap ==
    \/ \E t \in TaskIds : AcquirePermit(t)
    \/ \E t \in TaskIds : NeedsReindex(t)
    \/ \E t \in TaskIds : ReadAndChunk(t)
    \/ \E t \in TaskIds : StatAgain(t)
    \/ \E t \in TaskIds : Upsert(t)
    \/ \E t \in TaskIds : ClearChunks(t)
    \/ \E t \in TaskIds : AddChunk(t)
    \/ \E t \in TaskIds : MarkIndexed(t)
    \/ \E t \in TaskIds : Release(t)
    \/ \E t \in TaskIds : ProgressInc(t)
    \/ WalkerNext
    \/ ScanSpawn
    \/ StartWatcher
    \/ EventLoop
    \/ \E p \in Mutable, d \in {0, 1} : ModifyDuringIndex(p, d)

SpecOverlap == InitOverlap /\ [][NextOverlap]_vars

(* C37: the task submitted for the event of a save that fell between another
   task's read and its mark_indexed finds needs_reindexing true, and once no
   task is running the stored chunks of the file are the chunks of its latest
   content. *)
C37_LatestContentIndexed ==
    /\ [][\A t \in TaskIds :
            (tasks[t].kind = "event" /\ tasks[t].pc = "ask" /\ tasks'[t].pc # "ask")
                => tasks'[t].pc = "read"]_vars
    /\ [](NoTaskRunning =>
            \A p \in Mutable :
                StoredChunks(files, chunks, p) = PassOutput(disk[p].content))

-----------------------------------------------------------------------------
(* what the search would return if it did not consult the cache *)
UncachedResults ==
    search_chunks_enhanced(files, chunks, <<>>, input.query_embedding, input.options, now, 0).results

(* C38: over an unchanged Store an unfiltered vector search returns the
   result list of an uncached search with its own limit, min_score and
   recency_weight, whether it was answered from the rows or from the cache
   entry that an earlier search with other options left. *)
C38_HitEqualsMiss ==
    (output # NoCall /\ FilterCount(input.options) = 0) =>
        output.results = UncachedResults

-----------------------------------------------------------------------------
(* task t reads, in this step, a file of the default path that cannot be read *)
ReadFails(t) ==
    /\ tasks[t].pc = "read" /\ tasks'[t].pc # "read"
    /\ ~disk[tasks[t].path].exists
    /\ extension(tasks[t].path) \notin PluginExts \cup {"pdf"}

(* C39: a failed read in the default path is no chunking error: the task goes
   on with zero chunks, its clear_chunks call leaves the file without chunk
   rows and FTS rows, and its mark_indexed call sets last_indexed. *)
C39_UnreadableFileIndexedEmpty ==
    [][\A t \in TaskIds :
          /\ ReadFails(t) => (tasks'[t].pc = "stat" /\ tasks'[t].chunks = <<>>)
          /\ (ClearSucceeds(t) /\ tasks[t].chunks = <<>>) =>
                LET ids == {c.id : c \in {x \in chunks : x.file_id = tasks[t].file_id}}
                IN /\ tasks'[t].pc = "mark"
                   /\ StoredChunks(files', chunks', tasks[t].path) = <<>>
                   /\ ~\E r \in fts' : r.id \in ids
          /\ (tasks[t].pc = "mark" /\ tasks'[t].pc = "release" /\ tasks[t].chunks = <<>>
                /\ budget'.faults = budget.faults) =>
                RowOf(files', tasks[t].path).last_indexed # NULL]_vars

(* a task has returned for a file that left the disk after the task's check:
   the file row is marked indexed and the chunk and the FTS row the file had
   are gone *)
C39_Witness ==
    \E t \in TaskIds :
        /\ tasks[t].pc = "release" /\ tasks[t].file_id # 0 /\ tasks[t].chunks = <<>>
        /\ tasks[t].prior # <<>>
        /\ ~disk[tasks[t].path].exists
        /\ RowOf(files, tasks[t].path).last_indexed # NULL
        /\ StoredChunks(files, chunks, tasks[t].path) = <<>>
        /\ \A r \in fts : \E c \in chunks : c.id = r.id /\ c.file_id # tasks[t].file_id

-----------------------------------------------------------------------------
(* The two mutexes of the Database under concurrent calls.  input holds the
   calling threads, output the owner of each mutex (0: free). *)

MaxThreads == 2

(* the calls: an unfiltered and a filtered vector search, a hybrid search
   and a write of the index *)
Ops == {"vector", "filtered", "hybrid", "write"}

(* the files of the Store the calls run on: chunks "a" and "c" of a.txt and
   "x a" of b.txt *)
LockFiles ==
    <<[path |-> "a.txt", content |-> <<"a", NL, NL, "c">>, last_modified |-> QueryTime - Day],
      [path |-> "b.txt", content |-> <<"x", " ", "a">>, last_modified |-> QueryTime - Day]>>

LockQueryText == <<"a">>
LockQuery == Unwrap(embed(LockQueryText))

(* the options with which search_chunks_enhanced runs in a call *)
ThreadOptions(op) ==
    IF op = "filtered" THEN [DefaultOptions EXCEPT !.paths = Some({"a.txt"})]
    ELSE IF op = "hybrid" THEN [DefaultOptions EXCEPT !.limit = VectorFetch, !.min_score = NULL]
    ELSE DefaultOptions

(* where a call starts: at the cache lookup when there is a cache key, at
   the connection otherwise *)
FirstPc(op) ==
    IF op # "write" /\ CacheKey(LockQuery, ThreadOptions(op)) # None
    THEN "lookup_wait" ELSE "conn_wait"

NewThread(op) == [op |-> op, pc |-> FirstPc(op), stage |-> "first", results |-> <<>>]

ThreadIds == 1..Len(input)

InitLocks ==
    /\ disk = DiskOf({"a.txt", "b.txt"})
    /\ LET store == IndexAll(EmptyStore, LockFiles)
       IN /\ files = store.files /\ chunks = store.chunks /\ fts = store.fts
          /\ query_cache \in {<<>>,
                               search_chunks_enhanced(store.files, store.chunks, <<>>, LockQuery,
                                                      DefaultOptions, QueryTime, 0).cache}
    /\ now = QueryTime
    /\ permits = N
    /\ tasks = <<>>
    /\ scanQueue = <<>>
    /\ walker = NoEntry
    /\ phase = "loop"
    /\ ignore_checkers = IgnoreChecker_new(<<>>, GitignoreLines(disk))
    /\ pending = <<>>
    /\ observed = [valid |-> FALSE, rows |-> {}]
    /\ budget = [mods |-> 0, faults |-> 0, searches |-> 0, events |-> 0]
    /\ issued = NextRowid(chunks) - 1
    /\ mcp_cache = <<>>
    /\ response = NoResponse
    /\ input \in {[k \in 1..MaxThreads |-> NewThread(f[k])] : f \in [1..MaxThreads -> Ops]}
    /\ output = [conn |-> 0, cache |-> 0]

LockFrame == <<disk, chunks, fts, now, permits, tasks, scanQueue, walker, phase, ignore_checkers, pending, observed,
               budget, issued, response, mcp_cache>>

(* 360 and 483: self.query_cache.lock() *)
LockCache(th) ==
    /\ input[th].pc \in {"lookup_wait", "put_wait"}
    /\ output.cache = 0
    /\ output' = [output EXCEPT !.cache = th]
    /\ input' = [input EXCEPT ![th].pc = IF input[th].pc = "lookup_wait" THEN "lookup" ELSE "put"]
    /\ UNCHANGED <<files, query_cache>> /\ UNCHANGED LockFrame

(* variant: the guard of the lookup lives until the function returns *)
AfterLookupMissHeld == "conn_wait"

(* 369-370: after a miss the block of the lookup ends and its guard is dropped *)
AfterLookupMiss == "lookup_end"

(* 361-368: cache.get under the cache mutex; a hit filters and cuts the list *)
Lookup(th) ==
    /\ input[th].pc = "lookup"
    /\ LET out == search_chunks_enhanced(files, chunks, query_cache, LockQuery,
                                         ThreadOptions(input[th].op), now, 0)
       IN IF out.hit
          THEN /\ query_cache' = out.cache
               /\ input' = [input EXCEPT ![th].pc = "lookup_end", ![th].stage = "hit",
                                           ![th].results = out.results]
          ELSE /\ query_cache' = query_cache
               /\ input' = [input EXCEPT ![th].pc = AfterLookupMiss]
    /\ UNCHANGED <<files, output>> /\ UNCHANGED LockFrame

(* 368-370 and 492: the guard of the cache mutex is dropped *)
UnlockCache(th) ==
    /\ input[th].pc \in {"lookup_end", "put_end"}
    /\ output.cache = th
    /\ output' = [output EXCEPT !.cache = 0]
    /\ input' = [input EXCEPT ![th].pc =
                     IF input[th].pc = "put_end" THEN "conn_end"
                     ELSE IF input[th].stage # "hit" THEN "conn_wait"
                     ELSE IF input[th].op = "hybrid" THEN "fts_wait" ELSE "done"]
    /\ UNCHANGED <<files, query_cache>> /\ UNCHANGED LockFrame

(* 372, 227 and the Store's write methods: self.conn.lock() *)
LockConn(th) ==
    /\ input[th].pc \in {"conn_wait", "fts_wait"}
    /\ output.conn = 0
    /\ output' = [output EXCEPT !.conn = th]
    /\ input' = [input EXCEPT ![th].pc = IF input[th].pc = "fts_wait" THEN "fts"
                                          ELSE IF input[th].op = "write" THEN "write"
                                          ELSE "rows"]
    /\ UNCHANGED <<files, query_cache>> /\ UNCHANGED LockFrame

(* 374-479: the rows are read, scored and sorted under the connection mutex *)
ReadRows(th) ==
    /\ input[th].pc = "rows"
    /\ LET o == ThreadOptions(input[th].op)
       IN input' = [input EXCEPT ![th].pc = IF UsesCache(CacheKey(LockQuery, o))
                                             THEN "put_wait" ELSE "conn_end",
                                  ![th].results = ScoredChunks(files, chunks, LockQuery, o, now)]
    /\ UNCHANGED <<files, query_cache, output>> /\ UNCHANGED LockFrame

(* 484-494: cache.put under both mutexes, then truncate(limit) *)
Put(th) ==
    /\ input[th].pc = "put"
    /\ LET o == ThreadOptions(input[th].op)
       IN /\ query_cache' = CachePut(query_cache, VecBytes(LockQuery),
                                     CachedChunks(input[th].results, LimitOf(o)))
          /\ input' = [input EXCEPT ![th].pc = "put_end",
                                      ![th].results = Truncate(@, LimitOf(o))]
    /\ UNCHANGED <<files, output>> /\ UNCHANGED LockFrame

(* search_chunks_hybrid 227-320: the FTS query and the fusion under the
   connection mutex; rank is the bm25 order in which SQLite returns the
   chunk ids and order the order in which the HashMap yields them *)
Fts(th) ==
    /\ input[th].pc = "fts"
    /\ \E rank \in Perms({c.id : c \in chunks}), order \in Perms({c.id : c \in chunks}) :
          input' = [input EXCEPT ![th].pc = "conn_end", ![th].stage = "fts",
                      ![th].results = Rrf(@, fts_results(files, chunks, fts, LockQueryText,
                                                          DefaultOptions, rank),
                                          order, DefaultLimit)]
    /\ UNCHANGED <<files, query_cache, output>> /\ UNCHANGED LockFrame

(* add_or_update_file 74-95 under the connection mutex *)
Write(th) ==
    /\ input[th].pc = "write"
    /\ files' = add_or_update_file(files, "a.txt", now, 0).files
    /\ input' = [input EXCEPT ![th].pc = "conn_end"]
    /\ UNCHANGED <<query_cache, output>> /\ UNCHANGED LockFrame

(* the method returns and the guard of the connection mutex is dropped; a
   hybrid search goes on to its FTS query *)
UnlockConn(th) ==
    /\ input[th].pc = "conn_end"
    /\ output.conn = th
    /\ output' = [output EXCEPT !.conn = 0]
    /\ input' = [input EXCEPT ![th].pc = IF input[th].op = "hybrid" /\ input[th].stage # "fts"
                                          THEN "fts_wait" ELSE "done"]
    /\ UNCHANGED <<files, query_cache>> /\ UNCHANGED LockFrame

NextLocks ==
    \/ \E th \in ThreadIds : LockCache(th)
    \/ \E th \in ThreadIds : Lookup(th)
    \/ \E th \in ThreadIds : UnlockCache(th)
    \/ \E th \in ThreadIds : LockConn(th)
    \/ \E th \in ThreadIds : ReadRows(th)
    \/ \E th \in ThreadIds : Put(th)
    \/ \E th \in ThreadIds : Fts(th)
    \/ \E th \in ThreadIds : Write(th)
    \/ \E th \in ThreadIds : UnlockConn(th)

SpecLocks == InitLocks /\ [][NextLocks]_vars

(* thread th waits for the connection mutex, for the cache mutex *)
WaitsForConn(th) == input[th].pc \in {"conn_wait", "fts_wait"}
WaitsForCache(th) == input[th].pc \in {"lookup_wait", "put_wait"}

(* thread th waits for a mutex that another thread holds *)
Blocked(th) ==
    \/ WaitsForConn(th) /\ output.conn # 0
    \/ WaitsForCache(th) /\ output.cache # 0

(* C40: no thread waits for the connection mutex while it holds the cache
   mutex; a thread that holds both took the connection first and holds the
   cache for the put; and while a call is unfinished some unfinished call
   can take a step, so there is no deadlock on the two mutexes. *)
C40_NoLockInversion ==
    /\ \A th \in ThreadIds : WaitsForConn(th) => output.cache # th
    /\ \A th \in ThreadIds :
          (output.cache = th /\ output.conn = th) => input[th].pc \in {"put", "put_end"}
    /\ (\E th \in ThreadIds : input[th].pc # "done") =>
          \E th \in ThreadIds : input[th].pc # "done" /\ ~Blocked(th)

(* a search holds the connection mutex and waits for the cache mutex, which
   another search holds for its lookup *)
C40_Witness ==
    \E th, other \in ThreadIds :
        /\ output.conn = th /\ input[th].pc = "put_wait"
        /\ output.cache = other /\ input[other].pc = "lookup"

====
